---- MODULE Spec2Model ----
(***************************************************************************)
(* A model of the OpenAPI target-extraction pipeline of                    *)
(* globus-registered-api: the selector (find_target), the reducer          *)
(* (reduce_to_target) and the enrichers.                                   *)
(*                                                                         *)
(* Strings on which the code works character by character (paths, content *)
(* types, URLs, reference pointers) are sequences of tokens; a token is a  *)
(* run of characters the code never looks into.  JSON-like values are      *)
(* tagged tuples: <<"str", s>>, <<"dict", items>>, <<"list", items>>.      *)
(***************************************************************************)
EXTENDS Integers, Sequences, FiniteSets, TLC

VARIABLES
    pc,                  \* position of the pipeline
    spec,                \* the OpenAPI document given to the pipeline
    specifier,           \* the TargetSpecifier requested of find_target
    target_info,         \* TargetInfo found (an optional value)
    error,               \* the exception raised (an optional value)
    schemas_to_process,  \* _collect_components: the work-set
    processed_refs,      \* _collect_components: the visited set
    collected_schemas,   \* _collect_components: the result dict
    result,              \* the OpenAPITarget returned (an optional value)
    pop_count,           \* history: times each reference passed the visited check
    insert_count,        \* history: times each schema name was stored
    heap,                \* the objects of the documents the enrichers work on
    variant,             \* which enricher of the repository is in use
    enricher,            \* the enricher object, as its constructor left it
    enrich_pc,           \* "start", "once", "twice", "failed" or "failed again"
    argument,            \* the document passed to the last enrich call
    before,              \* history: the value of that document at the call
    returned,            \* the document the last enrich call returned
    first_result,        \* history: the value the first enrich call returned
    enrich_error,        \* the exception raised by enrich (an optional value)
    call,                \* a function applied on its own, with its arguments
    answer,              \* what that function returned or raised (an optional value)
    api_config,          \* the RegisteredAPIConfig in memory (an optional value)
    config_file,         \* the configuration file as last written (an optional value)
    name_cache,          \* _name_cache of a name resolver (an optional value)
    lookups,             \* history: the remote lookups that asked for each ID
    current_menu,        \* the menu the manage loop shows
    menu_pc,             \* "idle", "prompt" (the loop runs), "exited" or "raised"
    core,                \* the core entry of the configuration (an optional value)
    manifest_file,       \* the manifest file as last written (an optional value)
    build_pc,            \* position of the build command
    enriched_spec,       \* build: the enriched copy of the specification
    build_todo,          \* build: the configured targets still to process
    registered_apis,     \* build: the dict of computed targets, by alias
    build_error,         \* build: the exception that ended it (an optional value)
    remote_apis,         \* the Registered APIs the remote service holds
    publish_pc,          \* position of the publish command
    publish_todo,        \* publish: the aliases still to publish
    publish_runs,        \* the number of publish runs started
    publish_error        \* publish: the exception that ended it (an optional value)

pipeVars == <<pc, spec, specifier, target_info, error, schemas_to_process,
              processed_refs, collected_schemas, result, pop_count, insert_count>>
enrichVars == <<heap, variant, enricher, enrich_pc, argument, before, returned,
                first_result, enrich_error>>
unitVars == <<call, answer>>
configVars == <<api_config, config_file>>
resolverVars == <<name_cache, lookups>>
menuVars == <<current_menu, menu_pc>>
buildVars == <<core, manifest_file, build_pc, enriched_spec, build_todo,
               registered_apis, build_error>>
publishVars == <<remote_apis, publish_pc, publish_todo, publish_runs, publish_error>>
toolVars == <<buildVars, publishVars>>
cliVars == <<resolverVars, menuVars, toolVars>>
vars == <<pipeVars, enrichVars, unitVars, configVars, cliVars>>

----------------------------------------------------------------------------
(* Bounds of the model *)

\* the largest number of references in one allOf list of a schema
MaxAllOf == 2
\* the history counters saturate here
MaxCount == 3
\* the largest number of paths a document of the selector's universe declares
MaxPaths == 2
\* the largest number of content types a request body declares
MaxContentTypes == 2
\* the largest number of scopes a configuration names
MaxScopes == 2
\* the largest number of targets of a configuration
MaxTargets == 2

----------------------------------------------------------------------------
(* Values *)

None == [some |-> FALSE]
Some(v) == [some |-> TRUE, val |-> v]

S(tok) == <<tok>>
Str(s) == <<"str", s>>
Dict(items) == <<"dict", items>>
List(items) == <<"list", items>>

\* a Python dict: the mapping and the insertion order of its keys
EmptyDict == [map |-> <<>>, order |-> <<>>]
DictKeys(d) == DOMAIN d.map
DictSet(d, k, v) ==
    [map |-> [x \in DictKeys(d) \cup {k} |-> IF x = k THEN v ELSE d.map[x]],
     order |-> IF k \in DictKeys(d) THEN d.order ELSE Append(d.order, k)]
\* Python's == on dicts ignores the insertion order
DictEq(d1, d2) == d1.map = d2.map

Min(a, b) == IF a < b THEN a ELSE b
Bump(f, k) == [f EXCEPT ![k] = Min(@ + 1, MaxCount)]

----------------------------------------------------------------------------
(* The document universe *)

\* selector.py:16  HTTP_METHODS
HTTP_METHODS == <<"GET", "POST", "PUT", "DELETE", "PATCH", "HEAD", "OPTIONS", "TRACE">>
MethodSet == {HTTP_METHODS[i] : i \in DOMAIN HTTP_METHODS}

\* str.lower() / str.upper() on method names
LowerOf == [GET |-> "get", POST |-> "post", PUT |-> "put", DELETE |-> "delete",
            PATCH |-> "patch", HEAD |-> "head", OPTIONS |-> "options", TRACE |-> "trace"]
Lower(m) == IF m \in DOMAIN LowerOf THEN LowerOf[m] ELSE m
LowerMethods == {LowerOf[m] : m \in MethodSet}
MixedCase == [Get |-> "GET", Post |-> "POST", invalid |-> "INVALID"]
Upper(m) ==
    IF m \in LowerMethods THEN CHOOSE u \in MethodSet : LowerOf[u] = m
    ELSE IF m \in DOMAIN MixedCase THEN MixedCase[m] ELSE m

\* schema names and reference pointers
Names == {S("A"), S("B"), S("C")}
SchemaPrefix == "#/components/schemas/"
SchemaRef(n) == <<SchemaPrefix>> \o n
OtherRef == <<"#/components/responses/", "R">>
RefsU == {SchemaRef(n) : n \in Names} \cup {OtherRef}

RefObj(r) == Dict(<< <<S("$ref"), Str(r)>> >>)

RECURSIVE SeqOf(_)
SeqOf(set) ==
    IF set = {} THEN <<>>
    ELSE LET x == CHOOSE y \in set : TRUE IN <<x>> \o SeqOf(set \ {x})

\* the dumped schemas the documents of the model are built from
SchemaLeaf == Dict(<< <<S("type"), Str(S("object"))>> >>)
SchemaRefProperty ==
    Dict(<< <<S("properties"),
              Dict(<< <<S("ref"), Dict(<< <<S("type"), Str(S("string"))>> >>)>> >>)>> >>)
SchemaArray(r) == Dict(<< <<S("type"), Str(S("array"))>>, <<S("items"), RefObj(r)>> >>)
SchemaAllOf(rs) ==
    Dict(<< <<S("allOf"), List([i \in 1..Cardinality(rs) |-> RefObj(SeqOf(rs)[i])])>> >>)
SchemaValues ==
    {SchemaLeaf, SchemaRefProperty}
    \cup {SchemaArray(r) : r \in RefsU}
    \cup {SchemaAllOf(rs) : rs \in {x \in SUBSET RefsU : Cardinality(x) \in 2..MaxAllOf}}

ResponsesWith(r) == Dict(<< <<S("200"), Dict(<< <<S("schema"), RefObj(r)>> >>)>> >>)
ResponsesPlain == Dict(<< <<S("200"), Dict(<< <<S("description"), Str(S("OK"))>> >>)>> >>)

----------------------------------------------------------------------------
(* reducer.py *)

\* Operation.model_dump(by_alias=True, exclude_none=True)
DumpRequestBody(rb) ==
    IF "ref" \in DOMAIN rb THEN RefObj(rb.ref)
    ELSE IF rb.content.some THEN Dict(<< <<S("content"), Dict(rb.content.val)>> >>)
    ELSE Dict(<<>>)

DumpRequirement(requirement) ==
    Dict([i \in 1..Cardinality(DOMAIN requirement) |->
            LET key == SeqOf(DOMAIN requirement)[i]
            IN <<key, List([j \in DOMAIN requirement[key] |-> Str(requirement[key][j])])>>])

DumpOperation(op) ==
    Dict((IF op.requestBody.some
          THEN << <<S("requestBody"), DumpRequestBody(op.requestBody.val)>> >>
          ELSE <<>>)
         \o (IF op.responses.some THEN << <<S("responses"), op.responses.val>> >> ELSE <<>>)
         \o (IF "security" \in DOMAIN op /\ op.security.some
             THEN << <<S("security"),
                       List([i \in DOMAIN op.security.val |->
                               DumpRequirement(op.security.val[i])])>> >>
             ELSE <<>>))

\* a traversal that descends into mappings only
RECURSIVE _find_all_refs_SkipLists(_)
_find_all_refs_SkipLists(obj) ==
    IF obj[1] = "dict"
    THEN UNION {LET key == obj[2][i][1]
                    value == obj[2][i][2]
                IN IF key \in {S("$ref"), S("ref")} /\ value[1] = "str"
                   THEN {value[2]}
                   ELSE _find_all_refs_SkipLists(value) : i \in DOMAIN obj[2]}
    ELSE {}

RECURSIVE _find_all_refs(_)
_find_all_refs(obj) ==
    IF obj[1] = "dict"
    THEN UNION {LET key == obj[2][i][1]
                    value == obj[2][i][2]
                IN IF key \in {S("$ref"), S("ref")} /\ value[1] = "str"
                   THEN {value[2]}
                   ELSE _find_all_refs(value) : i \in DOMAIN obj[2]}
    ELSE IF obj[1] = "list"
    THEN UNION {_find_all_refs(obj[2][i]) : i \in DOMAIN obj[2]}
    ELSE {}

\* re.match(r"^#/components/schemas/(.+)$", ref): the name, or NoName for None
NoName == <<>>
_extract_schema_name(ref) ==
    IF Len(ref) >= 2 /\ ref[1] = SchemaPrefix THEN SubSeq(ref, 2, Len(ref)) ELSE NoName

\* a base URL used as it is declared
RStripSlash_Keep(s) == s

\* str.rstrip("/")
RECURSIVE RStripSlash(_)
RStripSlash(s) ==
    IF s # <<>> /\ s[Len(s)] = "/" THEN RStripSlash(SubSeq(s, 1, Len(s) - 1)) ELSE s

_build_destination(doc, target) ==
    LET base_url == IF Len(doc.servers) > 0 THEN RStripSlash(doc.servers[1]) ELSE <<>>
    IN [method |-> Lower(target.specifier.method),
        url |-> base_url \o target.specifier.path]

\* a loop that never records what it visited
MarkProcessed_Forgets(processed, ref) == processed

\* processed_refs.add(ref)
MarkProcessed(processed, ref) == processed \cup {ref}

\* an iteration that stores an empty schema under a name the table lacks
CollectStep_StoreAbsent(doc, st, ref) ==
    LET rest == st.to_process \ {ref} IN
    IF ref \in st.processed THEN [st EXCEPT !.to_process = rest]
    ELSE
      LET processed == MarkProcessed(st.processed, ref)
          schema_name == _extract_schema_name(ref)
      IN IF schema_name = NoName
         THEN [st EXCEPT !.to_process = rest, !.processed = processed]
         ELSE IF schema_name \notin DOMAIN doc.schemas.val
         THEN [to_process |-> rest, processed |-> processed,
               collected |-> DictSet(st.collected, schema_name, <<"dict", <<>> >>)]
         ELSE LET schema_dict == doc.schemas.val[schema_name]
                  transitive_refs == _find_all_refs(schema_dict)
              IN [to_process |-> rest \cup {t \in transitive_refs : t \notin processed},
                  processed |-> processed,
                  collected |-> DictSet(st.collected, schema_name, schema_dict)]

\* an iteration that leaves the loop (break) where the code skips (continue)
CollectStep_Break(doc, st, ref) ==
    LET rest == st.to_process \ {ref} IN
    IF ref \in st.processed THEN [st EXCEPT !.to_process = rest]
    ELSE
      LET processed == MarkProcessed(st.processed, ref)
          schema_name == _extract_schema_name(ref)
      IN IF schema_name = NoName \/ schema_name \notin DOMAIN doc.schemas.val
         THEN [st EXCEPT !.to_process = {}, !.processed = processed]
         ELSE LET schema_dict == doc.schemas.val[schema_name]
                  transitive_refs == _find_all_refs(schema_dict)
              IN [to_process |-> rest \cup {t \in transitive_refs : t \notin processed},
                  processed |-> processed,
                  collected |-> DictSet(st.collected, schema_name, schema_dict)]

\* one iteration of the while loop of _collect_components, for the popped ref
CollectStep(doc, st, ref) ==
    LET rest == st.to_process \ {ref} IN
    IF ref \in st.processed THEN [st EXCEPT !.to_process = rest]
    ELSE
      LET processed == MarkProcessed(st.processed, ref)
          schema_name == _extract_schema_name(ref)
      IN IF schema_name = NoName \/ schema_name \notin DOMAIN doc.schemas.val
         THEN [st EXCEPT !.to_process = rest, !.processed = processed]
         ELSE LET schema_dict == doc.schemas.val[schema_name]
                  transitive_refs == _find_all_refs(schema_dict)
              IN [to_process |-> rest \cup {t \in transitive_refs : t \notin processed},
                  processed |-> processed,
                  collected |-> DictSet(st.collected, schema_name, schema_dict)]

\* the tail of _collect_components and of reduce_to_target
\* a result that keeps the empty mapping
ComponentsOf_KeepEmpty(collected) == Some([schemas |-> collected])
ComponentsOf(collected) ==
    IF DictKeys(collected) = {} THEN None ELSE Some([schemas |-> collected])

OpenAPITarget(operation, destination, components) ==
    [operation |-> operation, destination |-> destination,
     components |-> components, transforms |-> None]

\* OpenAPITarget.to_dict
to_dict(t) ==
    LET base == [type |-> "openapi", openapi_version |-> "3.1",
                 destination |-> t.destination,
                 specification |-> DumpOperation(t.operation),
                 transforms |-> t.transforms]
    IN IF t.components.some THEN base @@ [components |-> t.components.val] ELSE base

\* the loop of _collect_components run to its end, popping in one fixed order
RECURSIVE CollectAll(_, _)
CollectAll(doc, st) ==
    IF st.to_process = {} THEN st.collected
    ELSE CollectAll(doc, CollectStep(doc, st, CHOOSE r \in st.to_process : TRUE))

ReduceOnce(doc, target) ==
    LET refs == IF doc.schemas.some
                THEN _find_all_refs(DumpOperation(target.operation))
                ELSE {}
        components ==
            IF refs = {} THEN None
            ELSE ComponentsOf(CollectAll(doc, [to_process |-> refs, processed |-> {},
                                               collected |-> EmptyDict]))
    IN OpenAPITarget(target.operation, _build_destination(doc, target), components)

----------------------------------------------------------------------------
(* selector.py *)

\* fnmatch.translate: the index in rest (the pattern after "[") of the "]" that
\* closes the class, or 0 when there is none and "[" stands for itself
RECURSIVE ScanBracket(_, _)
ScanBracket(rest, j) ==
    IF j > Len(rest) THEN 0
    ELSE IF rest[j] = "]" THEN j
    ELSE ScanBracket(rest, j + 1)

ClosingBracket(rest) ==
    LET j1 == IF Len(rest) >= 1 /\ rest[1] = "!" THEN 2 ELSE 1
        j2 == IF Len(rest) >= j1 /\ rest[j1] = "]" THEN j1 + 1 ELSE j1
    IN ScanBracket(rest, j2)

\* fnmatch.fnmatch(name, pat) on POSIX: *, ?, [seq], [!seq]; one token is one character
RECURSIVE fnmatch(_, _)
fnmatch(name, pat) ==
    IF pat = <<>> THEN name = <<>>
    ELSE
      LET c == Head(pat)
          rest == Tail(pat)
      IN CASE c = "*" ->
                \E k \in 0..Len(name) : fnmatch(SubSeq(name, k + 1, Len(name)), rest)
           [] c = "?" -> name # <<>> /\ fnmatch(Tail(name), rest)
           [] c = "[" ->
                LET j == ClosingBracket(rest) IN
                IF j = 0 THEN name # <<>> /\ Head(name) = "[" /\ fnmatch(Tail(name), rest)
                ELSE LET stuff == SubSeq(rest, 1, j - 1)
                         negated == Head(stuff) = "!"
                         members == IF negated THEN Tail(stuff) ELSE stuff
                         class == {members[i] : i \in DOMAIN members}
                     IN /\ name # <<>>
                        /\ IF negated THEN Head(name) \notin class ELSE Head(name) \in class
                        /\ fnmatch(Tail(name), SubSeq(rest, j + 1, Len(rest)))
           [] OTHER -> name # <<>> /\ Head(name) = c /\ fnmatch(Tail(name), rest)

\* ", ".join(items)
RECURSIVE Join(_)
Join(items) ==
    IF items = <<>> THEN <<>>
    ELSE IF Len(items) = 1 THEN items[1]
    ELSE items[1] \o <<", ">> \o Join(Tail(items))

Raise(kind, text, args) == [ok |-> FALSE, error |-> [kind |-> kind, text |-> text, args |-> args]]
Return(v) == [ok |-> TRUE, value |-> v]

PathKeys(doc) == {doc.paths.val[i][1] : i \in DOMAIN doc.paths.val}
PathItemAt(doc, key) == (CHOOSE e \in {doc.paths.val[i] : i \in DOMAIN doc.paths.val} : e[1] = key)[2]

\* a lookup that goes straight to the wildcard scan
_find_matching_path_GlobOnly(doc, route) ==
    IF ~doc.paths.some THEN None
    ELSE LET hits == {i \in DOMAIN doc.paths.val : fnmatch(doc.paths.val[i][1], route)}
         IN IF hits = {} THEN None
            ELSE Some(doc.paths.val[CHOOSE i \in hits : \A j \in hits : i <= j][1])

_find_matching_path(doc, route) ==
    IF ~doc.paths.some THEN None
    ELSE IF route \in PathKeys(doc) THEN Some(route)
    ELSE LET hits == {i \in DOMAIN doc.paths.val : fnmatch(doc.paths.val[i][1], route)}
         IN IF hits = {} THEN None
            ELSE Some(doc.paths.val[CHOOSE i \in hits : \A j \in hits : i <= j][1])

\* a lookup that goes on with the post operation when the method is missing
_get_operation_for_method_FallBack(path_item, method) ==
    IF method \in DOMAIN path_item /\ path_item[method].some THEN path_item[method]
    ELSE IF "post" \in DOMAIN path_item THEN path_item["post"] ELSE None

_get_operation_for_method(path_item, method) ==
    IF method \in DOMAIN path_item THEN path_item[method] ELSE None

\* a resolution without the exact-match step
_resolve_content_type_NoExact(operation, content_type) ==
    IF ~operation.requestBody.some THEN Return(content_type)
    ELSE LET request_body == operation.requestBody.val IN
      IF "ref" \in DOMAIN request_body THEN Return(content_type)
      ELSE IF ~request_body.content.some THEN Return(content_type)
      ELSE
        LET content == request_body.content.val
            available_types == [i \in DOMAIN content |-> content[i][1]]
            matches == SelectSeq(available_types, LAMBDA ct : fnmatch(ct, content_type))
        IN IF available_types = <<>> THEN Return(content_type)
           ELSE IF matches = <<>>
           THEN Raise("TargetNotFoundError", "Content-type '{}' not found. Available: {}",
                      <<content_type, Join(available_types)>>)
           ELSE IF Len(matches) > 1
           THEN Raise("AmbiguousContentTypeError",
                      "Multiple content-types match '{}': {}. Please specify one.",
                      <<content_type, Join(matches)>>)
           ELSE Return(matches[1])

_resolve_content_type(operation, content_type) ==
    IF ~operation.requestBody.some THEN Return(content_type)
    ELSE LET request_body == operation.requestBody.val IN
      IF "ref" \in DOMAIN request_body THEN Return(content_type)
      ELSE IF ~request_body.content.some THEN Return(content_type)
      ELSE
        LET content == request_body.content.val
            available_types == [i \in DOMAIN content |-> content[i][1]]
            matches == SelectSeq(available_types, LAMBDA ct : fnmatch(ct, content_type))
        IN IF available_types = <<>> THEN Return(content_type)
           ELSE IF \E i \in DOMAIN available_types : available_types[i] = content_type
           THEN Return(content_type)
           ELSE IF matches = <<>>
           THEN Raise("TargetNotFoundError", "Content-type '{}' not found. Available: {}",
                      <<content_type, Join(available_types)>>)
           ELSE IF Len(matches) > 1
           THEN Raise("AmbiguousContentTypeError",
                      "Multiple content-types match '{}': {}. Please specify one.",
                      <<content_type, Join(matches)>>)
           ELSE Return(matches[1])

\* a result that echoes the requested path
ResolvedSpecifier_EchoPath(target, matched_path, content_type) ==
    [method |-> target.method, path |-> target.path, content_type |-> content_type]

\* selector.py:164-168
ResolvedSpecifier(target, matched_path, content_type) ==
    [method |-> target.method, path |-> matched_path, content_type |-> content_type]

\* TargetSpecifier.__post_init__
ValidSpecifier(sp) == sp.method \in MethodSet /\ sp.path # <<>> /\ Head(sp.path) = "/"

find_target(doc, target) ==
    LET method == Lower(target.method)
        matched_path == _find_matching_path(doc, target.path)
    IN IF ~matched_path.some \/ ~doc.paths.some
       THEN Raise("TargetNotFoundError", "Route not found: {}", <<target.path>>)
       ELSE
         LET path_item == PathItemAt(doc, matched_path.val)
             operation == _get_operation_for_method(path_item, method)
         IN IF ~operation.some
            THEN Raise("TargetNotFoundError", "Method '{}' not found for route '{}'",
                       <<S(target.method), matched_path.val>>)
            ELSE
              LET resolved_content_type ==
                      _resolve_content_type(operation.val, target.content_type)
              IN IF ~resolved_content_type.ok THEN resolved_content_type
                 ELSE LET resolved_specifier ==
                              ResolvedSpecifier(target, matched_path.val,
                                                resolved_content_type.value)
                      IN IF ~ValidSpecifier(resolved_specifier)
                         THEN Raise("ValueError", "Path must start with '/': {}",
                                    <<matched_path.val>>)
                         ELSE Return([specifier |-> resolved_specifier,
                                      operation |-> operation.val])

\* processor.py:70: target_info = find_target(spec, target)
FindTarget ==
    /\ pc = "start"
    /\ LET found == find_target(spec, specifier.val)
       IN IF found.ok
          THEN /\ target_info' = Some(found.value)
               /\ pc' = "found"
               /\ UNCHANGED error
          ELSE /\ error' = Some(found.error)
               /\ pc' = "failed"
               /\ UNCHANGED target_info
    /\ UNCHANGED <<spec, specifier, schemas_to_process, processed_refs,
                   collected_schemas, result, pop_count, insert_count>>
    /\ UNCHANGED <<enrichVars, unitVars, configVars, cliVars>>

----------------------------------------------------------------------------
(* Documents as mutable objects.  An object lives at a location            *)
(* <<region, slot>>; the fields that hold another mutable object hold its  *)
(* location.  Security schemes and security requirements are never changed *)
(* in place by the code and are plain values.                              *)

NoRef == <<"none", <<>>>>
At(region, slot) == <<region, slot>>

DocSlot == <<"doc">>
ComponentsSlot == <<"components">>
SchemesSlot == <<"schemes">>
PathsSlot == <<"paths">>
ItemSlot(key) == <<"item">> \o key
OpSlot(key, m) == <<"operation", m>> \o key
SecuritySlot(key, m) == <<"security", m>> \o key

Put(h, ref, obj) == (ref :> obj) @@ h

\* a location of the region that holds no object yet
RECURSIVE Fresh(_, _, _)
Fresh(h, region, slot) ==
    IF At(region, slot) \notin DOMAIN h THEN At(region, slot)
    ELSE Fresh(h, region, slot \o <<"new">>)

Children(obj) ==
    CASE obj.kind = "doc" -> {obj.components, obj.paths} \ {NoRef}
      [] obj.kind = "components" -> {obj.securitySchemes} \ {NoRef}
      [] obj.kind = "paths" -> {obj.items[k] : k \in DOMAIN obj.items}
      [] obj.kind = "item" -> {obj.ops[m] : m \in DOMAIN obj.ops} \ {NoRef}
      [] obj.kind = "operation" -> {obj.security} \ {NoRef}
      [] OTHER -> {}

RECURSIVE Reach(_, _)
Reach(h, ref) == {ref} \cup UNION {Reach(h, c) : c \in Children(h[ref])}

Move(ref, region) == IF ref = NoRef THEN NoRef ELSE At(region, ref[2])

Remap(obj, region) ==
    CASE obj.kind = "doc" ->
           [obj EXCEPT !.components = Move(@, region), !.paths = Move(@, region)]
      [] obj.kind = "components" -> [obj EXCEPT !.securitySchemes = Move(@, region)]
      [] obj.kind = "paths" ->
           [obj EXCEPT !.items = [k \in DOMAIN obj.items |-> Move(obj.items[k], region)]]
      [] obj.kind = "item" ->
           [obj EXCEPT !.ops = [m \in DOMAIN obj.ops |-> Move(obj.ops[m], region)]]
      [] obj.kind = "operation" -> [obj EXCEPT !.security = Move(@, region)]
      [] OTHER -> obj

\* a copy that shares every object below the document object
ShallowCopy(h, ref, region) ==
    Put(h, Move(ref, region), h[ref])

\* copy.deepcopy / BaseModel.model_copy(deep=True): the copy is at Move(ref, region)
DeepCopy(h, ref, region) ==
    LET reached == Reach(h, ref)
    IN [l \in {Move(r, region) : r \in reached} |->
           Remap(h[CHOOSE r \in reached : Move(r, region) = l], region)] @@ h

\* the value of a document: what == compares
SnapSecurity(h, ref) == IF ref = NoRef THEN None ELSE Some(h[ref].items)
SnapOperation(h, ref) ==
    IF ref = NoRef THEN None ELSE Some([security |-> SnapSecurity(h, h[ref].security)])
SnapItem(h, ref) ==
    [upper |-> h[ref].upper,
     ops |-> [m \in DOMAIN h[ref].ops |-> SnapOperation(h, h[ref].ops[m])]]
SnapPaths(h, ref) ==
    IF ref = NoRef THEN None
    ELSE Some([i \in DOMAIN h[ref].keys |->
                 <<h[ref].keys[i], SnapItem(h, h[ref].items[h[ref].keys[i]])>>])
SnapComponents(h, ref) ==
    IF ref = NoRef THEN None
    ELSE Some([securitySchemes |->
                 IF h[ref].securitySchemes = NoRef THEN None
                 ELSE Some(h[h[ref].securitySchemes].map)])
Snapshot(h, ref) ==
    [components |-> SnapComponents(h, h[ref].components),
     paths |-> SnapPaths(h, h[ref].paths)]

\* the objects of a document of the given value, in the region
MaterializeItem(item, key, region) ==
    LET present == {m \in DOMAIN item.ops : item.ops[m].some}
        listed == {m \in present : item.ops[m].val.security.some}
    IN (At(region, ItemSlot(key)) :>
            [kind |-> "item", upper |-> item.upper,
             ops |-> [m \in DOMAIN item.ops |->
                        IF m \in present THEN At(region, OpSlot(key, m)) ELSE NoRef]])
       @@ [l \in {At(region, OpSlot(key, m)) : m \in present} |->
             LET m == CHOOSE x \in present : At(region, OpSlot(key, x)) = l
             IN [kind |-> "operation",
                 security |-> IF m \in listed THEN At(region, SecuritySlot(key, m))
                              ELSE NoRef]]
       @@ [l \in {At(region, SecuritySlot(key, m)) : m \in listed} |->
             LET m == CHOOSE x \in listed : At(region, SecuritySlot(key, x)) = l
             IN [kind |-> "list", items |-> item.ops[m].val.security.val]]

RECURSIVE MaterializeItems(_, _)
MaterializeItems(entries, region) ==
    IF entries = <<>> THEN <<>>
    ELSE MaterializeItem(entries[1][2], entries[1][1], region)
         @@ MaterializeItems(Tail(entries), region)

Materialize(value, region) ==
    (At(region, DocSlot) :>
        [kind |-> "doc",
         components |-> IF value.components.some THEN At(region, ComponentsSlot) ELSE NoRef,
         paths |-> IF value.paths.some THEN At(region, PathsSlot) ELSE NoRef])
    @@ (IF value.components.some
        THEN (At(region, ComponentsSlot) :>
                [kind |-> "components",
                 securitySchemes |-> IF value.components.val.securitySchemes.some
                                     THEN At(region, SchemesSlot) ELSE NoRef])
             @@ (IF value.components.val.securitySchemes.some
                 THEN At(region, SchemesSlot) :>
                        [kind |-> "schemes",
                         map |-> value.components.val.securitySchemes.val]
                 ELSE <<>>)
        ELSE <<>>)
    @@ (IF value.paths.some
        THEN (At(region, PathsSlot) :>
                [kind |-> "paths",
                 keys |-> [i \in DOMAIN value.paths.val |-> value.paths.val[i][1]],
                 items |-> [k \in {value.paths.val[i][1] : i \in DOMAIN value.paths.val} |->
                              At(region, ItemSlot(k))]])
             @@ MaterializeItems(value.paths.val, region)
        ELSE <<>>)

----------------------------------------------------------------------------
(* openapi/enchricher: the enricher that works on pydantic documents *)

GlobusAuth == S("GlobusAuth")
AuthorizeUrl == <<"https://auth.globus.org/", "v2/oauth2/authorize">>
TokenUrl == <<"https://auth.globus.org/", "v2/oauth2/token">>

\* an oauth2 security scheme with an authorizationCode flow
OAuthScheme(authorize, token, scopes) ==
    [class |-> "SecurityScheme", type |-> "oauth2",
     flows |-> Some([authorizationCode |->
                Some([authorizationUrl |-> authorize, tokenUrl |-> token,
                      scopes |-> scopes])])]

\* a security requirement {"GlobusAuth": [scope]}
Requirement(scope) == (GlobusAuth :> <<scope>>)

\* the targets of a scope: the string "*" or a list of target strings
Wildcard == [string |-> TRUE, list |-> <<>>]
TargetList(targets) == [string |-> FALSE, list |-> targets]

\* TargetSpecifier.load on a string given as the groups of the regex
TargetSpecifier_load(value) ==
    [method |-> Upper(value.method), path |-> value.path,
     content_type |-> IF value.content_type.some THEN value.content_type.val ELSE S("*")]

\* dict.setdefault(key, []).append(item) on an ordered dict of lists
RECURSIVE SetDefaultAppend(_, _, _)
SetDefaultAppend(entries, key, item) ==
    IF entries = <<>> THEN << <<key, <<item>>>> >>
    ELSE IF entries[1][1] = key
         THEN << <<key, Append(entries[1][2], item)>> >> \o Tail(entries)
         ELSE <<entries[1]>> \o SetDefaultAppend(Tail(entries), key, item)

RECURSIVE IndexTargets(_, _, _)
IndexTargets(index, scope, targets) ==
    IF targets = <<>> THEN index
    ELSE IndexTargets(SetDefaultAppend(index, TargetSpecifier_load(Head(targets)), scope),
                      scope, Tail(targets))

\* the loop of __init__ over config["globus_auth"]["scopes"].items()
RECURSIVE PopulateScopeIndices(_, _)
PopulateScopeIndices(self, scopes) ==
    IF scopes = <<>> THEN self
    ELSE LET entry == Head(scopes)
         IN PopulateScopeIndices(
              IF entry.targets = Wildcard
              THEN [self EXCEPT !.wildcard_scopes = Append(@, entry.scope)]
              ELSE [self EXCEPT !.target_specifier_scopes =
                                    IndexTargets(@, entry.scope, entry.targets.list)],
              Tail(scopes))

_GlobusAuthSecurityScheme(config) ==
    OAuthScheme(AuthorizeUrl, TokenUrl,
                [s \in {config[i].scope : i \in DOMAIN config} |->
                    LET entry == CHOOSE e \in {config[i] : i \in DOMAIN config} : e.scope = s
                    IN IF entry.description.some THEN entry.description.val ELSE S("")])

InjectDefaultSecuritySchemas(config) ==
    PopulateScopeIndices(
        [security_scheme |-> _GlobusAuthSecurityScheme(config),
         wildcard_scopes |-> <<>>,
         target_specifier_scopes |-> <<>>],
        config)

\* None when the other scheme contains this one, else the exception raised
verify_contained_in(self, other) ==
    IF other.class # "SecurityScheme"
    THEN Some([kind |-> "TypeError", text |-> "Unsupported security scheme comparison"])
    ELSE IF self.type # other.type
    THEN Some([kind |-> "ValueError", text |-> "Security scheme mismatch"])
    ELSE IF ~other.flows.some \/ ~self.flows.some
    THEN Some([kind |-> "ValueError", text |-> "'flows' cannot be None."])
    ELSE LET ocode == other.flows.val.authorizationCode
             scode == self.flows.val.authorizationCode
         IN IF ~ocode.some \/ ~scode.some
            THEN Some([kind |-> "ValueError",
                       text |-> "'authorizationCode' flow cannot be None."])
            ELSE IF ocode.val.authorizationUrl # scode.val.authorizationUrl
            THEN Some([kind |-> "ValueError", text |-> "'authorizationUrl'"])
            ELSE IF ocode.val.tokenUrl # scode.val.tokenUrl
            THEN Some([kind |-> "ValueError", text |-> "'tokenUrl'"])
            ELSE IF /\ DOMAIN ocode.val.scopes # {}
                    /\ DOMAIN scode.val.scopes # {}
                    /\ DOMAIN scode.val.scopes \ DOMAIN ocode.val.scopes # {}
            THEN Some([kind |-> "ValueError", text |-> "Missing scopes in security scheme"])
            ELSE None

\* the outcome of a mutation: the objects after it and the exception, if any
Outcome(h, exception) == [heap |-> h, error |-> exception]

_validate_and_update_components(self, h, schema) ==
    LET region == schema[1]
        had == h[schema].components # NoRef
        components == IF had THEN h[schema].components
                      ELSE Fresh(h, region, ComponentsSlot)
        h1 == IF had THEN h
              ELSE Put(Put(h, components, [kind |-> "components", securitySchemes |-> NoRef]),
                       schema, [h[schema] EXCEPT !.components = components])
        kept == /\ h1[components].securitySchemes # NoRef
                /\ DOMAIN h1[h1[components].securitySchemes].map # {}
        security_schemes == IF kept THEN h1[components].securitySchemes
                            ELSE Fresh(h1, region, SchemesSlot)
        h2 == IF kept THEN h1
              ELSE Put(Put(h1, security_schemes, [kind |-> "schemes", map |-> <<>>]),
                       components,
                       [h1[components] EXCEPT !.securitySchemes = security_schemes])
        map == h2[security_schemes].map
    IN IF GlobusAuth \in DOMAIN map
       THEN Outcome(h2, verify_contained_in(self.security_scheme, map[GlobusAuth]))
       ELSE Outcome(Put(h2, security_schemes,
                        [h2[security_schemes] EXCEPT
                            !.map = (GlobusAuth :> self.security_scheme) @@ map]),
                    None)

\* the scan that ignores the entries already on the operation
registered_scopes_Blind(security) == {}

\* the scopes of the single-scope GlobusAuth requirements of a security list
registered_scopes(security) ==
    {security[i][GlobusAuth][1] :
        i \in {j \in DOMAIN security :
                 /\ GlobusAuth \in DOMAIN security[j]
                 /\ Len(security[j][GlobusAuth]) = 1}}

\* the insertion that puts each new entry at the end of the list
RECURSIVE InsertUnregistered_AtEnd(_, _)
InsertUnregistered_AtEnd(st, scopes) ==
    IF scopes = <<>> THEN st
    ELSE InsertUnregistered_AtEnd(
           IF Head(scopes) \in st.registered THEN st
           ELSE [registered |-> st.registered \cup {Head(scopes)},
                 security |-> Append(st.security, Requirement(Head(scopes)))],
           Tail(scopes))
\* insert at the front each scope that is not registered, registering it
RECURSIVE InsertUnregistered(_, _)
InsertUnregistered(st, scopes) ==
    IF scopes = <<>> THEN st
    ELSE InsertUnregistered(
           IF Head(scopes) \in st.registered THEN st
           ELSE [registered |-> st.registered \cup {Head(scopes)},
                 security |-> <<Requirement(Head(scopes))>> \o st.security],
           Tail(scopes))

RECURSIVE InsertTargeted(_, _, _, _)
InsertTargeted(st, index, path, method) ==
    IF index = <<>> THEN st
    ELSE InsertTargeted(
           IF Head(index)[1].path = path /\ Head(index)[1].method = method
           THEN InsertUnregistered(st, Head(index)[2])
           ELSE st,
           Tail(index), path, method)

\* operation.security = security, for the list the code worked on
StoreSecurity(h, operation, security) ==
    LET old == h[operation].security
        same == old # NoRef /\ h[old].items # <<>>
        list == IF same THEN old ELSE Fresh(h, operation[1], <<"security">> \o operation[2])
    IN IF security = <<>> THEN h
       ELSE Put(Put(h, list, [kind |-> "list", items |-> security]),
                operation, [h[operation] EXCEPT !.security = list])

ExistingSecurity(h, operation) ==
    IF h[operation].security = NoRef THEN <<>> ELSE h[h[operation].security].items

\* the update that inserts the wildcard scopes before the targeted ones
_validate_and_update_operation_WildcardFirst(self, h, path, method, operation) ==
    LET security == ExistingSecurity(h, operation)
        wild == InsertUnregistered(
                    [registered |-> registered_scopes(security), security |-> security],
                    self.wildcard_scopes)
        all == InsertTargeted(wild, self.target_specifier_scopes, path, method)
    IN StoreSecurity(h, operation, all.security)
_validate_and_update_operation(self, h, path, method, operation) ==
    LET security == ExistingSecurity(h, operation)
        targeted == InsertTargeted(
                        [registered |-> registered_scopes(security), security |-> security],
                        self.target_specifier_scopes, path, method)
        all == InsertUnregistered(targeted, self.wildcard_scopes)
    IN StoreSecurity(h, operation, all.security)

\* the (path, method) pairs mutate visits, in its order
OperationOrder(keys, methods) ==
    [i \in 1..(Len(keys) * Len(methods)) |->
        <<keys[((i - 1) \div Len(methods)) + 1], methods[((i - 1) % Len(methods)) + 1]>>]

\* the loop that gives every path every method
RECURSIVE UpdateOperations_Create(_, _, _, _)
UpdateOperations_Create(self, h, schema, todo) ==
    IF todo = <<>> THEN h
    ELSE LET path_str == Head(todo)[1]
             method == Head(todo)[2]
             path == h[h[schema].paths].items[path_str]
             created == Fresh(h, schema[1], OpSlot(path_str, Lower(method)))
             h1 == IF h[path].ops[Lower(method)] # NoRef THEN h
                   ELSE Put(Put(h, created, [kind |-> "operation", security |-> NoRef]),
                            path, [h[path] EXCEPT !.ops[Lower(method)] = created])
         IN UpdateOperations_Create(
              self,
              _validate_and_update_operation(self, h1, path_str, method,
                                             h1[path].ops[Lower(method)]),
              schema, Tail(todo))
RECURSIVE UpdateOperations(_, _, _, _)
UpdateOperations(self, h, schema, todo) ==
    IF todo = <<>> THEN h
    ELSE LET path_str == Head(todo)[1]
             method == Head(todo)[2]
             path == h[h[schema].paths].items[path_str]
             operation == h[path].ops[Lower(method)]
         IN UpdateOperations(
              self,
              IF operation = NoRef THEN h
              ELSE _validate_and_update_operation(self, h, path_str, method, operation),
              schema, Tail(todo))

mutate(self, h, schema) ==
    LET checked == _validate_and_update_components(self, h, schema)
    IN IF checked.error.some THEN checked
       ELSE IF h[schema].paths = NoRef THEN checked
       ELSE Outcome(UpdateOperations(self, checked.heap, schema,
                                     OperationOrder(h[h[schema].paths].keys, HTTP_METHODS)),
                    None)

\* OpenAPIEnricher.enrich: the copy is made in the region given
OpenAPIEnricher_enrich(self, h, schema, region) ==
    LET copied == DeepCopy(h, schema, region)
        mutable_schema == Move(schema, region)
        mutated == mutate(self, copied, mutable_schema)
    IN [heap |-> mutated.heap, error |-> mutated.error, value |-> mutable_schema]

----------------------------------------------------------------------------
(* aperture_science: the enricher that works on documents loaded as dicts *)

\* the scheme _insert_component_security_schema writes
GlobusAuthSchemeDict(scope_descriptions) ==
    [type |-> "oauth2",
     flows |-> Some([authorizationCode |->
                Some([authorizationUrl |-> AuthorizeUrl, tokenUrl |-> TokenUrl,
                      scopes |-> scope_descriptions])])]

RECURSIVE _init_scope_mappings(_, _)
_init_scope_mappings(self, scopes) ==
    IF scopes = <<>> THEN self
    ELSE LET entry == Head(scopes)
         IN _init_scope_mappings(
              IF entry.targets = Wildcard
              THEN [self EXCEPT !.all_scopes = Append(@, entry.scope)]
              ELSE [self EXCEPT !.target_specifier_scopes =
                                    IndexTargets(@, entry.scope, entry.targets.list)],
              Tail(scopes))

aperture_InjectDefaultSecuritySchemas(config) ==
    _init_scope_mappings(
        [scope_descriptions |->
            [s \in {config[i].scope : i \in DOMAIN config} |->
                LET entry == CHOOSE e \in {config[i] : i \in DOMAIN config} : e.scope = s
                IN IF entry.description.some THEN entry.description.val ELSE S("")],
         all_scopes |-> <<>>,
         target_specifier_scopes |-> <<>>],
        config)

\* OpenApiEnrichmentCenter.__init__: no mutation without a globus_auth section
OpenApiEnrichmentCenter(config) ==
    [mutations |-> IF config.some /\ config.val # <<>>
                   THEN <<aperture_InjectDefaultSecuritySchemas(config.val)>>
                   ELSE <<>>]

_insert_component_security_schema(self, h, root_schema) ==
    LET region == root_schema[1]
        had == h[root_schema].components # NoRef
        components == IF had THEN h[root_schema].components
                      ELSE Fresh(h, region, ComponentsSlot)
        h1 == IF had THEN h
              ELSE Put(Put(h, components, [kind |-> "components", securitySchemes |-> NoRef]),
                       root_schema, [h[root_schema] EXCEPT !.components = components])
        kept == h1[components].securitySchemes # NoRef
        security_schemes == IF kept THEN h1[components].securitySchemes
                            ELSE Fresh(h1, region, SchemesSlot)
        h2 == IF kept THEN h1
              ELSE Put(Put(h1, security_schemes, [kind |-> "schemes", map |-> <<>>]),
                       components,
                       [h1[components] EXCEPT !.securitySchemes = security_schemes])
        map == h2[security_schemes].map
    IN IF S("globus_auth") \notin DOMAIN map
       THEN Put(h2, security_schemes,
                [h2[security_schemes] EXCEPT
                    !.map = (GlobusAuth :> GlobusAuthSchemeDict(self.scope_descriptions))
                            @@ [k \in DOMAIN map \ {GlobusAuth} |-> map[k]]])
       ELSE h2

\* dict.get(key, []) on an ordered dict of lists
Lookup(entries, key) ==
    LET hits == {i \in DOMAIN entries : entries[i][1] = key}
    IN IF hits = {} THEN <<>> ELSE entries[CHOOSE i \in hits : TRUE][2]

_insert_operation_security_schema(self, h, sp, operation_schema) ==
    LET had == h[operation_schema].security # NoRef
        security == IF had THEN h[operation_schema].security
                    ELSE Fresh(h, operation_schema[1], <<"security">> \o operation_schema[2])
        h1 == IF had THEN h
              ELSE Put(Put(h, security, [kind |-> "list", items |-> <<>>]),
                       operation_schema, [h[operation_schema] EXCEPT !.security = security])
        items == h1[security].items
        scopes == self.all_scopes \o Lookup(self.target_specifier_scopes, sp)
    IN IF \A i \in DOMAIN items : GlobusAuth \notin DOMAIN items[i]
       THEN Put(h1, security,
                [h1[security] EXCEPT
                    !.items = @ \o [i \in DOMAIN scopes |-> Requirement(scopes[i])]])
       ELSE h1

\* the loop of mutate over _iter_operations, which builds a TargetSpecifier
\* from each key of each path item
RECURSIVE InsertOperations(_, _, _, _)
InsertOperations(self, h, root_schema, todo) ==
    IF todo = <<>> THEN Outcome(h, None)
    ELSE LET operation_path == Head(todo)[1]
             path_schema == h[h[root_schema].paths].items[operation_path]
             operation_schema == h[path_schema].ops[Lower(Head(todo)[2])]
             method_name == IF h[path_schema].upper THEN Head(todo)[2]
                            ELSE Lower(Head(todo)[2])
             sp == [method |-> method_name, path |-> operation_path,
                    content_type |-> S("*")]
         IN IF operation_schema = NoRef
            THEN InsertOperations(self, h, root_schema, Tail(todo))
            ELSE IF ~ValidSpecifier(sp)
            THEN Outcome(h, Some([kind |-> "ValueError", text |-> "Invalid HTTP method"]))
            ELSE InsertOperations(
                   self,
                   _insert_operation_security_schema(self, h, sp, operation_schema),
                   root_schema, Tail(todo))

aperture_mutate(self, h, root_schema) ==
    LET h1 == _insert_component_security_schema(self, h, root_schema)
    IN IF h1[root_schema].paths = NoRef THEN Outcome(h1, None)
       ELSE InsertOperations(self, h1, root_schema,
                             OperationOrder(h1[h1[root_schema].paths].keys, HTTP_METHODS))

\* OpenApiEnrichmentCenter.enrich: the copy is made in the region given
OpenApiEnrichmentCenter_enrich(self, h, openapi_schema, region) ==
    LET copied == DeepCopy(h, openapi_schema, region)
        mutable_openapi_schema == Move(openapi_schema, region)
        mutated == IF self.mutations = <<>> THEN Outcome(copied, None)
                   ELSE aperture_mutate(self.mutations[1], copied, mutable_openapi_schema)
    IN [heap |-> mutated.heap, error |-> mutated.error, value |-> mutable_openapi_schema]

----------------------------------------------------------------------------
(* openapi/enricher: the mutation driven by the targets of the configuration *)

\* TargetConfig.specifier: TargetSpecifier.create(self.method, self.path)
TargetConfig_specifier(target) ==
    LET created == [method |-> Upper(target.method), path |-> target.path,
                    content_type |-> S("*")]
    IN IF ValidSpecifier(created) THEN Return(created)
       ELSE Raise("ValueError", "Path must start with '/': {}", <<target.path>>)

\* an operation made anew even where the path item already has one
_ensure_exists_Replace(h, schema, sp) ==
    LET region == schema[1]
        kept == h[schema].paths # NoRef /\ h[h[schema].paths].keys # <<>>
        paths == IF kept THEN h[schema].paths ELSE Fresh(h, region, PathsSlot)
        h1 == IF kept THEN h
              ELSE Put(Put(h, paths, [kind |-> "paths", keys |-> <<>>, items |-> <<>>]),
                       schema, [h[schema] EXCEPT !.paths = paths])
        known == sp.path \in DOMAIN h1[paths].items
        path_item == IF known THEN h1[paths].items[sp.path]
                     ELSE Fresh(h1, region, ItemSlot(sp.path))
        h2 == IF known THEN h1
              ELSE Put(Put(h1, path_item,
                           [kind |-> "item", upper |-> FALSE,
                            ops |-> [m \in LowerMethods |-> NoRef]]),
                       paths,
                       [h1[paths] EXCEPT !.keys = Append(@, sp.path),
                                         !.items = (sp.path :> path_item) @@ @])
        method_key == Lower(sp.method)
        new_operation == Fresh(h2, region, OpSlot(sp.path, method_key))
    IN [heap |-> Put(Put(h2, new_operation, [kind |-> "operation", security |-> NoRef]),
                     path_item,
                     [h2[path_item] EXCEPT !.ops[method_key] = new_operation]),
        operation |-> new_operation]

\* the operation of the specifier, created with its path item when missing
_ensure_exists(h, schema, sp) ==
    LET region == schema[1]
        kept == h[schema].paths # NoRef /\ h[h[schema].paths].keys # <<>>
        paths == IF kept THEN h[schema].paths ELSE Fresh(h, region, PathsSlot)
        h1 == IF kept THEN h
              ELSE Put(Put(h, paths, [kind |-> "paths", keys |-> <<>>, items |-> <<>>]),
                       schema, [h[schema] EXCEPT !.paths = paths])
        known == sp.path \in DOMAIN h1[paths].items
        path_item == IF known THEN h1[paths].items[sp.path]
                     ELSE Fresh(h1, region, ItemSlot(sp.path))
        h2 == IF known THEN h1
              ELSE Put(Put(h1, path_item,
                           [kind |-> "item", upper |-> FALSE,
                            ops |-> [m \in LowerMethods |-> NoRef]]),
                       paths,
                       [h1[paths] EXCEPT !.keys = Append(@, sp.path),
                                         !.items = (sp.path :> path_item) @@ @])
        method_key == Lower(sp.method)
        existing_operation == h2[path_item].ops[method_key]
        new_operation == Fresh(h2, region, OpSlot(sp.path, method_key))
    IN IF existing_operation # NoRef
       THEN [heap |-> h2, operation |-> existing_operation]
       ELSE [heap |-> Put(Put(h2, new_operation, [kind |-> "operation", security |-> NoRef]),
                          path_item,
                          [h2[path_item] EXCEPT !.ops[method_key] = new_operation]),
             operation |-> new_operation]

\* the scopes of the single-scope GlobusAuth requirements of a security list
predefined_scopes(security) ==
    {security[i][GlobusAuth][1] :
        i \in {j \in DOMAIN security :
                 /\ GlobusAuth \in DOMAIN security[j]
                 /\ Len(security[j][GlobusAuth]) = 1}}

\* insert at the front each scope that was not on the operation at the start
RECURSIVE InsertMissing(_, _, _)
InsertMissing(security, predefined, scope_strings) ==
    IF scope_strings = <<>> THEN security
    ELSE InsertMissing(
           IF Head(scope_strings) \in predefined THEN security
           ELSE <<Requirement(Head(scope_strings))>> \o security,
           predefined, Tail(scope_strings))

config_validate_and_update_operation(h, operation, target) ==
    LET security == ExistingSecurity(h, operation)
    IN StoreSecurity(h, operation,
                     InsertMissing(security, predefined_scopes(security),
                                   target.scope_strings))

\* InjectSecuritySchemes.mutate: the loop over config.targets
RECURSIVE config_mutate(_, _, _)
config_mutate(targets, h, schema) ==
    IF targets = <<>> THEN Outcome(h, None)
    ELSE LET sp == TargetConfig_specifier(Head(targets))
         IN IF ~sp.ok THEN Outcome(h, Some(sp.error))
            ELSE LET ensured == _ensure_exists(h, schema, sp.value)
                 IN config_mutate(
                      Tail(targets),
                      config_validate_and_update_operation(
                          ensured.heap, ensured.operation, Head(targets)),
                      schema)

----------------------------------------------------------------------------
(* reduce_to_target as steps: the entry, one step per loop iteration, the exit *)

\* no function is applied on its own
UnitIdle ==
    /\ call = None
    /\ answer = None

\* no configuration is loaded
ConfigIdle ==
    /\ api_config = None
    /\ config_file = None

\* no name resolver is in use
ResolverIdle ==
    /\ name_cache = None
    /\ lookups = <<>>

\* the manage command is not running
MenuIdle ==
    /\ current_menu = <<>>
    /\ menu_pc = "idle"

\* the build command is not running and there is no manifest
BuildIdle ==
    /\ core = None
    /\ manifest_file = None
    /\ build_pc = "idle"
    /\ enriched_spec = None
    /\ build_todo = <<>>
    /\ registered_apis = EmptyDict
    /\ build_error = None

\* the publish command is not running and the remote service holds nothing
PublishIdle ==
    /\ remote_apis = <<>>
    /\ publish_pc = "idle"
    /\ publish_todo = <<>>
    /\ publish_runs = 0
    /\ publish_error = None

ToolIdle ==
    /\ BuildIdle
    /\ PublishIdle

CliIdle ==
    /\ ResolverIdle
    /\ MenuIdle
    /\ ToolIdle

\* no enricher is in use
EnrichIdle ==
    /\ heap = <<>>
    /\ variant = "none"
    /\ enricher = None
    /\ enrich_pc = "idle"
    /\ argument = None
    /\ before = None
    /\ returned = None
    /\ first_result = None
    /\ enrich_error = None

CollectState ==
    [to_process |-> schemas_to_process, processed |-> processed_refs,
     collected |-> collected_schemas]

\* reducer.py:44-102: the destination, the early returns, the seeding of the work-set
ReduceStart ==
    /\ pc = "found"
    /\ LET target == target_info.val
           refs == IF spec.schemas.some
                   THEN _find_all_refs(DumpOperation(target.operation))
                   ELSE {}
       IN IF refs = {}
          THEN /\ result' = Some(OpenAPITarget(target.operation,
                                               _build_destination(spec, target), None))
               /\ pc' = "done"
               /\ UNCHANGED <<schemas_to_process, processed_refs, collected_schemas>>
          ELSE /\ schemas_to_process' = refs
               /\ processed_refs' = {}
               /\ collected_schemas' = EmptyDict
               /\ pc' = "collect"
               /\ UNCHANGED result
    /\ UNCHANGED <<spec, specifier, target_info, error, pop_count, insert_count>>
    /\ UNCHANGED <<enrichVars, unitVars, configVars, cliVars>>

\* reducer.py:104-125: set.pop() takes any element of the work-set
CollectPop ==
    /\ pc = "collect"
    /\ schemas_to_process # {}
    /\ \E ref \in schemas_to_process :
         LET st == CollectStep(spec, CollectState, ref)
             fresh == ref \notin processed_refs
             name == _extract_schema_name(ref)
             stored == fresh /\ name # NoName /\ name \in DOMAIN spec.schemas.val
         IN /\ schemas_to_process' = st.to_process
            /\ processed_refs' = st.processed
            /\ collected_schemas' = st.collected
            /\ pop_count' = IF fresh THEN Bump(pop_count, ref) ELSE pop_count
            /\ insert_count' = IF stored THEN Bump(insert_count, name) ELSE insert_count
    /\ UNCHANGED <<pc, spec, specifier, target_info, error, result>>
    /\ UNCHANGED <<enrichVars, unitVars, configVars, cliVars>>

\* reducer.py:127-130 and 58-63
CollectExit ==
    /\ pc = "collect"
    /\ schemas_to_process = {}
    /\ result' = Some(OpenAPITarget(target_info.val.operation,
                                    _build_destination(spec, target_info.val),
                                    ComponentsOf(collected_schemas)))
    /\ pc' = "done"
    /\ UNCHANGED <<spec, specifier, target_info, error, schemas_to_process,
                   processed_refs, collected_schemas, pop_count, insert_count>>
    /\ UNCHANGED <<enrichVars, unitVars, configVars, cliVars>>

----------------------------------------------------------------------------
(* The reducer on its own: documents with every schema table over Names *)

PathItem(ops) == [m \in LowerMethods |-> IF m \in DOMAIN ops THEN Some(ops[m]) ELSE None]

CT_json == <<"application", "/", "json">>
MediaWith(r) == Dict(<< <<S("schema"), RefObj(r)>> >>)

ReduceOps ==
    {[requestBody |-> None, responses |-> Some(ResponsesPlain)]}
    \cup {[requestBody |-> None, responses |-> Some(ResponsesWith(r))] : r \in RefsU}
    \cup {[requestBody |-> Some([content |-> Some(<< <<CT_json, MediaWith(SchemaRef(S("A")))>> >>)]),
           responses |-> Some(ResponsesWith(SchemaRef(S("B"))))],
          [requestBody |-> Some([ref |-> OtherRef]),
           responses |-> Some(ResponsesWith(SchemaRef(S("C"))))]}

SchemaTables ==
    {None} \cup {Some(f) : f \in UNION {[P -> SchemaValues] : P \in SUBSET Names}}

ItemsPath == <<"/", "items">>
ExampleServer == <<"https://api.example.com">>

InitReduce ==
    /\ EnrichIdle
    /\ UnitIdle
    /\ ConfigIdle
    /\ CliIdle
    /\ pc = "found"
    /\ \E op \in ReduceOps, table \in SchemaTables :
         /\ spec = [paths |-> Some(<< <<ItemsPath, PathItem([get |-> op])>> >>),
                    servers |-> <<ExampleServer>>,
                    schemas |-> table]
         /\ target_info = Some([specifier |-> [method |-> "GET", path |-> ItemsPath,
                                               content_type |-> S("*")],
                                operation |-> op])
    /\ specifier = None
    /\ error = None
    /\ schemas_to_process = {}
    /\ processed_refs = {}
    /\ collected_schemas = EmptyDict
    /\ result = None
    /\ pop_count = [r \in RefsU |-> 0]
    /\ insert_count = [n \in Names |-> 0]

NextReduce == ReduceStart \/ CollectPop \/ CollectExit

SpecReduce == InitReduce /\ [][NextReduce]_vars

\* the loop is sequential code: an enabled step is taken
FairSpecReduce == SpecReduce /\ WF_vars(NextReduce)

----------------------------------------------------------------------------
(* The selector on its own, and process_target: find_target, then reduce_to_target *)

DistinctSeqs(set, n) ==
    UNION {{q \in [1..k -> set] : \A i, j \in 1..k : q[i] = q[j] => i = j} : k \in 0..n}

PathKeysU == {<<"/", "a">>, <<"/", "a", "b">>, <<"/", "*">>}
SpecPaths == {<<"/", "a">>, <<"/", "*">>, <<"/", "?">>, <<"/", "a", "?">>,
              <<"/", "[", "!", "a", "]">>, <<"/", "c">>}
ContentTypeKeys == {<<"a", "/", "j">>, <<"a", "/", "x">>, <<"a", "/", "*">>}
RequestedTypes == {<<"*">>, <<"a", "/", "*">>, <<"a", "/", "j">>, <<"a", "/", "?">>,
                   <<"a", "/", "[", "j", "x", "]">>, <<"t", "/", "p">>}
SpecMethods == {"GET", "POST", "DELETE"}

MediaPlain == Dict(<< <<S("schema"), SchemaLeaf>> >>)
Bodies ==
    {Some([ref |-> OtherRef]), Some([content |-> None])}
    \cup {Some([content |-> Some([i \in DOMAIN cts |-> <<cts[i], MediaPlain>>])]) :
            cts \in DistinctSeqs(ContentTypeKeys, MaxContentTypes)}

OpPost(body) == [requestBody |-> body, responses |-> Some(ResponsesPlain)]
ItemKinds(get_op, body) ==
    {PathItem([get |-> get_op]),
     PathItem([get |-> get_op, post |-> OpPost(body)]),
     PathItem([post |-> OpPost(body)])}
PathTables(get_op, body) ==
    {None}
    \cup UNION {{Some([i \in DOMAIN keys |-> <<keys[i], items[i]>>]) :
                    items \in [DOMAIN keys -> ItemKinds(get_op, body)]} :
                  keys \in DistinctSeqs(PathKeysU, MaxPaths)}

OpGetPlain == [requestBody |-> None, responses |-> Some(ResponsesPlain)]

InitCommon ==
    /\ EnrichIdle
    /\ UnitIdle
    /\ ConfigIdle
    /\ CliIdle
    /\ pc = "start"
    /\ target_info = None
    /\ error = None
    /\ schemas_to_process = {}
    /\ processed_refs = {}
    /\ collected_schemas = EmptyDict
    /\ result = None
    /\ pop_count = [r \in RefsU |-> 0]
    /\ insert_count = [n \in Names |-> 0]

InitSelect ==
    /\ InitCommon
    /\ \E body \in Bodies :
         \E paths \in PathTables(OpGetPlain, body) :
           spec = [paths |-> paths, servers |-> <<ExampleServer>>, schemas |-> None]
    /\ \E m \in SpecMethods, p \in SpecPaths, ct \in RequestedTypes :
         specifier = Some([method |-> m, path |-> p, content_type |-> ct])

NextSelect == FindTarget

SpecSelect == InitSelect /\ [][NextSelect]_vars

\* servers as the loader hands them over: no entry, the default "/", declared URLs
ServersU ==
    {<<>>, << <<"/">> >>, <<ExampleServer>>, << ExampleServer \o <<"/">> >>,
     << ExampleServer \o <<"/", "/">> >>,
     << ExampleServer \o <<"/", "v1", "/">>, <<"https://other.example.com">> >>}

OpGetRef == [requestBody |-> None, responses |-> Some(ResponsesWith(SchemaRef(S("A"))))]
BodyJson == Some([content |-> Some(<< <<CT_json, MediaWith(SchemaRef(S("B")))>> >>)])
ProcessTable ==
    Some([n \in {S("A"), S("B")} |->
            IF n = S("A") THEN SchemaArray(SchemaRef(S("A"))) ELSE SchemaLeaf])

InitProcess ==
    /\ InitCommon
    /\ \E paths \in PathTables(OpGetRef, BodyJson), servers \in ServersU :
         spec = [paths |-> paths, servers |-> servers, schemas |-> ProcessTable]
    /\ \E m \in SpecMethods, p \in SpecPaths :
         specifier = Some([method |-> m, path |-> p, content_type |-> S("*")])

\* processor.py:41-73
NextProcess == FindTarget \/ ReduceStart \/ CollectPop \/ CollectExit

SpecProcess == InitProcess /\ [][NextProcess]_vars

----------------------------------------------------------------------------
(* The enrichers: enrich is called on the caller's document, and then on   *)
(* the document that call returned                                         *)

PipeIdle ==
    /\ pc = "idle"
    /\ spec = None
    /\ specifier = None
    /\ target_info = None
    /\ error = None
    /\ schemas_to_process = {}
    /\ processed_refs = {}
    /\ collected_schemas = EmptyDict
    /\ result = None
    /\ pop_count = [r \in RefsU |-> 0]
    /\ insert_count = [n \in Names |-> 0]

ScopesU == {S("s:all"), S("s:read")}
PathA == <<"/", "a">>
PathB == <<"/", "b">>

\* the security schemes a document may already declare
ApiKeyScheme == [class |-> "SecurityScheme", type |-> "apiKey", flows |-> None]
Described(scopes) == [s \in scopes |-> S("described")]
ExistingSchemes ==
    {OAuthScheme(AuthorizeUrl, TokenUrl, Described(scopes)) : scopes \in SUBSET ScopesU}
    \cup {OAuthScheme(<<"https://auth.example.org/", "authorize">>, TokenUrl,
                      Described(ScopesU)),
          OAuthScheme(AuthorizeUrl, <<"https://auth.example.org/", "token">>,
                      Described(ScopesU)),
          ApiKeyScheme,
          [class |-> "SecurityScheme", type |-> "oauth2", flows |-> None],
          [class |-> "SecurityScheme", type |-> "oauth2",
           flows |-> Some([authorizationCode |-> None])],
          [class |-> "Reference", ref |-> S("#/components/securitySchemes/Other")]}

ComponentsU ==
    {None, Some([securitySchemes |-> None]), Some([securitySchemes |-> Some(<<>>)]),
     Some([securitySchemes |-> Some(S("ApiKey") :> ApiKeyScheme)]),
     Some([securitySchemes |-> Some(S("globus_auth") :> ApiKeyScheme)])}
    \cup {Some([securitySchemes |-> Some(GlobusAuth :> scheme)]) : scheme \in ExistingSchemes}

\* the security lists an operation may already have
OtherRequirement == (S("ApiKey") :> <<>>)
SecurityU ==
    {None, Some(<<>>), Some(<<Requirement(S("s:all"))>>), Some(<<OtherRequirement>>),
     Some(<<(GlobusAuth :> <<S("s:all"), S("s:read")>>)>>),
     Some(<<(GlobusAuth :> <<>>)>>),
     Some(<<OtherRequirement, Requirement(S("s:read"))>>),
     Some(<<(GlobusAuth :> <<S("s:all")>>) @@ OtherRequirement>>)}

ItemOf(upper, get_op, post_op) ==
    [upper |-> upper,
     ops |-> [m \in LowerMethods |->
                IF m = "get" THEN get_op ELSE IF m = "post" THEN post_op ELSE None]]
PlainOp == Some([security |-> None])
ItemsU(upper) ==
    {ItemOf(upper, get_op, post_op) :
        get_op \in {None} \cup {Some([security |-> sec]) : sec \in SecurityU},
        post_op \in {None, PlainOp}}

\* the documents given to the enrichers; method keys are upper case when upper
PathsU(upper) ==
    {None, Some(<<>>)}
    \cup {Some(<< <<PathA, item>> >>) : item \in ItemsU(upper)}
    \cup {Some(<< <<PathA, ItemOf(TRUE, PlainOp, None)>>, <<PathB, ItemOf(upper, PlainOp, PlainOp)>> >>),
          Some(<< <<PathB, ItemOf(upper, PlainOp, None)>>, <<PathA, ItemOf(upper, None, PlainOp)>> >>)}
DocsU(upper) ==
    {[components |-> components, paths |-> paths] :
        components \in ComponentsU, paths \in PathsU(upper)}

\* the targets of a scope: "*" or target strings, given as their regex groups
TargetString(method, path, content_type) ==
    [method |-> method, path |-> path, content_type |-> content_type]
TargetsU ==
    {Wildcard, TargetList(<<>>),
     TargetList(<<TargetString("get", PathA, None)>>),
     TargetList(<<TargetString("GET", PathA, None),
                  TargetString("get", PathA, Some(<<"a", "/", "j">>))>>),
     TargetList(<<TargetString("post", PathB, None)>>),
     TargetList(<<TargetString("get", PathA, Some(<<"a", "/", "j">>))>>)}
ScopeConfigs ==
    UNION {{[i \in DOMAIN scopes |->
               [scope |-> scopes[i], description |-> None, targets |-> targets[i]]] :
              targets \in [DOMAIN scopes -> TargetsU]} :
           scopes \in DistinctSeqs(ScopesU, MaxScopes)}

\* the targets of a RegisteredAPIConfig: at most MaxTargets, naming at most
\* MaxScopes scope strings between them
ScopeStringsU == UNION {[1..k -> ScopesU] : k \in 0..MaxScopes}
TargetKeysU == {<<"GET", PathA>>, <<"POST", PathA>>, <<"GET", PathB>>, <<"GET", <<"b">>>>}
TargetConfigs ==
    {[method |-> key[1], path |-> key[2], alias |-> S("alias"),
      scope_strings |-> scope_strings] :
        key \in TargetKeysU, scope_strings \in ScopeStringsU}
RECURSIVE ScopeStringCount(_)
ScopeStringCount(targets) ==
    IF targets = <<>> THEN 0
    ELSE Len(Head(targets).scope_strings) + ScopeStringCount(Tail(targets))
TargetLists ==
    {targets \in UNION {[1..k -> TargetConfigs] : k \in 0..MaxTargets} :
        ScopeStringCount(targets) <= MaxScopes}
ConfigDocs ==
    {[components |-> None, paths |-> paths] :
        paths \in {None, Some(<<>>)}
                  \cup {Some(<< <<PathA, ItemOf(FALSE, Some([security |-> sec]), None)>> >>) :
                          sec \in {None, Some(<<>>), Some(<<Requirement(S("s:all"))>>),
                                   Some(<<OtherRequirement, Requirement(S("s:read"))>>)}}}

Caller == At("caller", DocSlot)

InitEnrich ==
    /\ PipeIdle
    /\ UnitIdle
    /\ ConfigIdle
    /\ CliIdle
    /\ enrich_pc = "start"
    /\ argument = None
    /\ before = None
    /\ returned = None
    /\ first_result = None
    /\ enrich_error = None
    /\ \/ /\ variant = "aperture_science"
          /\ \E upper \in BOOLEAN :
               \E value \in DocsU(upper) : heap = Materialize(value, "caller")
          /\ \E config \in {None} \cup {Some(c) : c \in ScopeConfigs} :
               enricher = OpenApiEnrichmentCenter(config)
       \/ /\ variant = "enchricher"
          /\ \E value \in DocsU(FALSE) : heap = Materialize(value, "caller")
          /\ \E config \in ScopeConfigs : enricher = InjectDefaultSecuritySchemas(config)
       \/ /\ variant = "enricher"
          /\ \E value \in ConfigDocs : heap = Materialize(value, "caller")
          /\ \E targets \in TargetLists : enricher = [config |-> [targets |-> targets]]

\* what one call leaves behind
Called(schema, out) ==
    /\ heap' = out.heap
    /\ argument' = Some(schema)
    /\ before' = Some(Snapshot(heap, schema))
    /\ enrich_error' = out.error
    /\ IF out.error.some
       THEN /\ enrich_pc' = IF enrich_pc = "start" THEN "failed" ELSE "failed again"
            /\ returned' = None
            /\ UNCHANGED first_result
       ELSE /\ enrich_pc' = IF enrich_pc = "start" THEN "once" ELSE "twice"
            /\ returned' = Some(out.value)
            /\ first_result' = IF enrich_pc = "start"
                               THEN Some(Snapshot(out.heap, out.value))
                               ELSE first_result
    /\ UNCHANGED <<variant, enricher, pipeVars, unitVars, configVars, cliVars>>

NextSchema == IF enrich_pc = "start" THEN Caller ELSE returned.val
NextRegion == IF enrich_pc = "start" THEN "first" ELSE "second"

\* aperture_science/enrichment.py:26-39
EnrichDict ==
    /\ variant = "aperture_science"
    /\ enrich_pc \in {"start", "once"}
    /\ Called(NextSchema,
              OpenApiEnrichmentCenter_enrich(enricher, heap, NextSchema, NextRegion))

\* openapi/enchricher/encricher.py:27-41
EnrichModel ==
    /\ variant = "enchricher"
    /\ enrich_pc \in {"start", "once"}
    /\ Called(NextSchema, OpenAPIEnricher_enrich(enricher, heap, NextSchema, NextRegion))

\* openapi/enricher/security_scheme.py:26-29, on the document itself
MutateConfigured ==
    /\ variant = "enricher"
    /\ enrich_pc \in {"start", "once"}
    /\ LET mutated == config_mutate(enricher.config.targets, heap, NextSchema)
       IN Called(NextSchema,
                 [heap |-> mutated.heap, error |-> mutated.error, value |-> NextSchema])

NextEnrich == EnrichDict \/ EnrichModel \/ MutateConfigured

SpecEnrich == InitEnrich /\ [][NextEnrich]_vars

----------------------------------------------------------------------------
(* domain.py: TargetSpecifier.  A string is a sequence of tokens: " " and   *)
(* "\n" are whitespace, a word of LetterWords is a run of letters, every    *)
(* other token is a run of characters that are neither.                     *)

LetterWords == MethodSet \cup LowerMethods \cup DOMAIN MixedCase
               \cup {"INVALID", "a", "b", "j", "items"}
IsSpace(tok) == tok \in {" ", "\n"}

\* the number of tokens from position i on that are letters / whitespace / not whitespace
RECURSIVE LetterRun(_, _)
LetterRun(text, i) ==
    IF i <= Len(text) /\ text[i] \in LetterWords THEN 1 + LetterRun(text, i + 1) ELSE 0
RECURSIVE SpaceRun(_, _)
SpaceRun(text, i) ==
    IF i <= Len(text) /\ IsSpace(text[i]) THEN 1 + SpaceRun(text, i + 1) ELSE 0
RECURSIVE WordRun(_, _)
WordRun(text, i) ==
    IF i <= Len(text) /\ ~IsSpace(text[i]) THEN 1 + WordRun(text, i + 1) ELSE 0

\* "$" of a Python regex: the end, or just before a newline that ends the string
AtEnd(text, i) == i = Len(text) + 1 \/ (i = Len(text) /\ text[i] = "\n")

\* _TARGET_SPECIFIER_REGEX.match: the groups, or None
\*   ^(?P<method>[A-Za-z]+)\s+(?P<path>/\S+)(\s+(?P<content_type>\S+))?$
_TARGET_SPECIFIER_REGEX_match(text) ==
    LET n1 == LetterRun(text, 1)
        i2 == 1 + n1
        n2 == SpaceRun(text, i2)
        i3 == i2 + n2
        n3 == WordRun(text, i3 + 1)
        i4 == i3 + 1 + n3
        n4 == SpaceRun(text, i4)
        i5 == i4 + n4
        n5 == WordRun(text, i5)
        i6 == i5 + n5
    IN IF ~(/\ n1 = 1 /\ n2 >= 1
            /\ i3 <= Len(text) /\ text[i3] = "/"
            /\ n3 >= 1)
       THEN None
       ELSE IF AtEnd(text, i4)
       THEN Some([method |-> text[1], path |-> SubSeq(text, i3, i4 - 1),
                  content_type |-> None])
       ELSE IF n4 >= 1 /\ n5 >= 1 /\ AtEnd(text, i6)
       THEN Some([method |-> text[1], path |-> SubSeq(text, i3, i4 - 1),
                  content_type |-> Some(SubSeq(text, i5, i6 - 1))])
       ELSE None

\* the dataclass constructor with __post_init__
TargetSpecifier(method, path, content_type) ==
    IF method \notin MethodSet
    THEN Raise("ValueError", "Invalid HTTP method: {}. Must be one of: {}",
               <<S(method), Join([i \in DOMAIN HTTP_METHODS |-> S(HTTP_METHODS[i])])>>)
    ELSE IF path = <<>> \/ Head(path) # "/"
    THEN Raise("ValueError", "Path must start with '/': {}", <<path>>)
    ELSE Return([method |-> method, path |-> path, content_type |-> content_type])

\* the create that passes the method on as it was given
TargetSpecifier_create_AsGiven(method, path, content_type) ==
    TargetSpecifier(method, path, content_type)
TargetSpecifier_create(method, path, content_type) ==
    TargetSpecifier(Upper(method), path, content_type)

\* TargetSpecifier.load on the string itself
TargetSpecifier_load_text(value) ==
    LET match == _TARGET_SPECIFIER_REGEX_match(value)
    IN IF ~match.some
       THEN Raise("ValueError", "Invalid TargetSpecifier string: {}", <<value>>)
       ELSE TargetSpecifier_create(
                match.val.method, match.val.path,
                IF match.val.content_type.some /\ match.val.content_type.val # <<>>
                THEN match.val.content_type.val ELSE S("*"))
----------------------------------------------------------------------------
(* TargetSpecifier on its own: one construction, then an attempt to assign *)

FieldMethods == MethodSet \cup {"get", "post", "Get", "INVALID", "a"}
FieldPaths == {<<"/", "a">>, <<"/">>, <<"/", "a", " ", "b">>, <<"/", "items", "/", "{id}">>,
               <<"/", "*">>, <<"items">>, <<>>}
FieldTypes == {<<"*">>, <<"a", "/", "j">>, <<>>, <<"t", "/", "p", ";", " ", "c">>}

\* the string forms "METHOD /path content-type" and "METHOD /path"
WithContentType(method, path, content_type) == <<method, " ">> \o path \o <<" ">> \o content_type
WithoutContentType(method, path) == <<method, " ">> \o path

LoadTexts ==
    {WithContentType(m, p, ct) : m \in FieldMethods, p \in FieldPaths, ct \in FieldTypes}
    \cup {WithoutContentType(m, p) : m \in FieldMethods, p \in FieldPaths}
    \cup {<<"invalid", " ", "format">>, <<"GET", " ", "/", "a", "\n">>,
          <<" ", "GET", " ", "/", "a">>, <<"GET", " ", " ", "/", "a", "\n", "j">>}

SpecifierCalls ==
    {[fn |-> fn, args |-> [method |-> m, path |-> p, content_type |-> ct]] :
        fn \in {"TargetSpecifier", "create"},
        m \in FieldMethods, p \in FieldPaths, ct \in FieldTypes}
    \cup {[fn |-> "load", args |-> [value |-> text]] : text \in LoadTexts}

InitSpecifier ==
    /\ PipeIdle
    /\ EnrichIdle
    /\ ConfigIdle
    /\ CliIdle
    /\ call \in SpecifierCalls
    /\ answer = None

\* domain.py:53-60
Construct ==
    /\ call.fn = "TargetSpecifier"
    /\ answer = None
    /\ answer' = Some(TargetSpecifier(call.args.method, call.args.path,
                                      call.args.content_type))
    /\ UNCHANGED <<call, pipeVars, enrichVars, configVars, cliVars>>

\* domain.py:62-81
Create ==
    /\ call.fn = "create"
    /\ answer = None
    /\ answer' = Some(TargetSpecifier_create(call.args.method, call.args.path,
                                             call.args.content_type))
    /\ UNCHANGED <<call, pipeVars, enrichVars, configVars, cliVars>>

\* domain.py:83-110
Load ==
    /\ call.fn = "load"
    /\ answer = None
    /\ answer' = Some(TargetSpecifier_load_text(call.args.value))
    /\ UNCHANGED <<call, pipeVars, enrichVars, configVars, cliVars>>

\* domain.py:23  an assignment to a field of a frozen dataclass raises and
\* leaves the instance as it is
Reassign ==
    /\ call.fn \in {"TargetSpecifier", "create", "load"}
    /\ answer.some /\ answer.val.ok
    /\ \E field \in {"method", "path", "content_type"} :
         call' = [fn |-> "setattr",
                  args |-> [instance |-> answer.val.value, field |-> field]]
    /\ answer' = Some(Raise("FrozenInstanceError", "cannot assign to field {}", <<>>))
    /\ UNCHANGED <<pipeVars, enrichVars, configVars, cliVars>>

NextSpecifier == Construct \/ Create \/ Load \/ Reassign

SpecSpecifier == InitSpecifier /\ [][NextSpecifier]_vars
----------------------------------------------------------------------------
(* openapi/analyzer.py: OpenAPISpecAnalyzer.analyze.  A security            *)
(* requirement is a dict, kept as the sequence of its items                 *)
(* <<scheme name, scopes>>.                                                 *)

\* the longest security list of an operation
MaxRequirements == 2

\* scope strings, in the order sorted() gives them
AnalyzerScopes == <<S("scope:a"), S("scope:b")>>

RequirementGet(requirement, key) ==
    LET hits == {i \in DOMAIN requirement : requirement[i][1] = key}
    IN IF hits = {} THEN None ELSE Some(requirement[CHOOSE i \in hits : TRUE][2])

\* a test that takes the first scope of a GlobusAuth list of any length
WellFormedScope_AnyCount(requirement) ==
    LET globus_auth_scopes == RequirementGet(requirement, "GlobusAuth")
    IN IF /\ Len(requirement) = 1
          /\ globus_auth_scopes.some /\ globus_auth_scopes.val # <<>>
       THEN Some(globus_auth_scopes.val[1])
       ELSE None

\* analyzer.py:42-46  the scope of a requirement of the shape
\* {"GlobusAuth": [scope_string]}, if it has that shape
WellFormedScope(requirement) ==
    LET globus_auth_scopes == RequirementGet(requirement, "GlobusAuth")
    IN IF /\ Len(requirement) = 1
          /\ globus_auth_scopes.some /\ globus_auth_scopes.val # <<>>
          /\ Len(globus_auth_scopes.val) = 1
       THEN Some(globus_auth_scopes.val[1])
       ELSE None

\* analyzer.py:41-48  the scopes appended for one operation
RECURSIVE OperationScopes(_)
OperationScopes(security) ==
    IF security = <<>> THEN <<>>
    ELSE LET scope == WellFormedScope(Head(security))
         IN (IF scope.some THEN <<scope.val>> ELSE <<>>) \o OperationScopes(Tail(security))

\* analyzer.py:36-48  the loop over HTTP_METHODS for one path, from method i on
RECURSIVE AnalyzeMethods(_, _, _, _)
AnalyzeMethods(path, path_schema, i, acc) ==
    IF i > Len(HTTP_METHODS) \/ ~acc.ok THEN acc
    ELSE LET method == HTTP_METHODS[i]
             operation == _get_operation_for_method(path_schema, Lower(method))
         IN IF ~operation.some THEN AnalyzeMethods(path, path_schema, i + 1, acc)
            ELSE LET target == TargetSpecifier_create(method, path, S("*"))
                 IN IF ~target.ok THEN target
                    ELSE LET found == OperationScopes(
                                         IF operation.val.security.some
                                         THEN operation.val.security.val ELSE <<>>)
                         IN AnalyzeMethods(path, path_schema, i + 1,
                                Return([targets |-> Append(acc.value.targets, target.value),
                                        scopes |-> acc.value.scopes
                                                   \cup {found[k] : k \in DOMAIN found},
                                        scopes_by_target |->
                                            Append(acc.value.scopes_by_target,
                                                   <<target.value, found>>)]))

\* analyzer.py:35  the loop over spec.paths.items()
RECURSIVE AnalyzePaths(_, _)
AnalyzePaths(items, acc) ==
    IF items = <<>> \/ ~acc.ok THEN acc
    ELSE AnalyzePaths(Tail(items), AnalyzeMethods(Head(items)[1], Head(items)[2], 1, acc))

\* sorted(scopes)
RECURSIVE SortedScopes(_, _)
SortedScopes(scopes, i) ==
    IF i > Len(AnalyzerScopes) THEN <<>>
    ELSE (IF AnalyzerScopes[i] \in scopes THEN <<AnalyzerScopes[i]>> ELSE <<>>)
         \o SortedScopes(scopes, i + 1)

\* urlparse(url).scheme: the text before "://", in lower case
UrlSchemes == [https |-> "https", HTTPS |-> "https", http |-> "http"]
urlparse_scheme(url) ==
    IF Len(url) >= 2 /\ url[2] = "://" /\ url[1] \in DOMAIN UrlSchemes
    THEN UrlSchemes[url[1]] ELSE ""

RECURSIVE HttpsServers(_)
HttpsServers(servers) ==
    IF servers = <<>> THEN <<>>
    ELSE (IF urlparse_scheme(Head(servers)) = "https" THEN <<Head(servers)>> ELSE <<>>)
         \o HttpsServers(Tail(servers))

\* analyzer.py:29-60
analyze(doc) ==
    IF ~doc.paths.some
    THEN Raise("AttributeError", "'NoneType' object has no attribute 'items'", <<>>)
    ELSE LET walked == AnalyzePaths(doc.paths.val,
                           Return([targets |-> <<>>, scopes |-> {},
                                   scopes_by_target |-> <<>>]))
         IN IF ~walked.ok THEN walked
            ELSE Return([targets |-> walked.value.targets,
                         scope_strings |-> SortedScopes(walked.value.scopes, 1),
                         scopes_by_target |-> walked.value.scopes_by_target,
                         https_servers |-> HttpsServers(doc.servers)])
----------------------------------------------------------------------------
(* The analyzer on its own: one document, analysed once *)

ScopeLists ==
    {<<>>, <<AnalyzerScopes[1]>>, <<AnalyzerScopes[2]>>,
     <<AnalyzerScopes[1], AnalyzerScopes[2]>>}
RequirementsU ==
    {<<>>}
    \cup {<< <<"GlobusAuth", scopes>> >> : scopes \in ScopeLists}
    \cup {<< <<"OtherAuth", <<AnalyzerScopes[1]>> >> >>,
          << <<"GlobusAuth", <<AnalyzerScopes[1]>> >>, <<"ApiKey", <<>> >> >>,
          << <<"OtherAuth", <<AnalyzerScopes[2]>> >>, <<"GlobusAuth", <<AnalyzerScopes[1]>> >> >>}

SecurityLists ==
    {None} \cup {Some(list) : list \in UNION {[1..n -> RequirementsU] : n \in 0..MaxRequirements}}

AnalyzedOperation(security) == [security |-> security]

\* path items: a GET operation with any security list, perhaps with a POST
\* operation, and the item of no operation
ScopeB == Some(<< << <<"GlobusAuth", <<AnalyzerScopes[2]>> >> >> >>)
AnalyzedPathItems ==
    {[m \in methods |-> Some(AnalyzedOperation(IF m = "get" THEN sg ELSE ScopeB))] :
        methods \in {{"get"}, {"get", "post"}}, sg \in SecurityLists}
    \cup {<<>>}
PlainPathItems ==
    {[m \in {"get"} |-> Some(AnalyzedOperation(sg))] :
        sg \in {None, Some(<< << <<"OtherAuth", <<AnalyzerScopes[1]>> >> >> >>)}}

AnalyzedPaths == <<PathA, PathB, <<"/", "c">>, <<"/", "d">>, <<"/", "e">> >>

\* documents of at most MaxPaths paths; the second path may lack its
\* leading slash
AnalyzedPathTables ==
    {<<>>}
    \cup {<< <<PathA, first>> >> : first \in AnalyzedPathItems}
    \cup UNION {{[i \in 1..n |-> <<IF i = 2 /\ bare THEN <<"b">> ELSE AnalyzedPaths[i],
                                   IF i = 1 THEN first ELSE rest>>] :
                    first \in AnalyzedPathItems, rest \in PlainPathItems,
                    bare \in BOOLEAN} :
                n \in 2..Min(MaxPaths, Len(AnalyzedPaths))}

AnalyzedServers ==
    {<< <<"https", "://", "api.example.org">>, <<"http", "://", "api.example.org">>,
              <<"HTTPS", "://", "api.example.org">>, <<"/">> >>}

AnalyzedDocs ==
    {[paths |-> None, servers |-> <<>>]}
    \cup {[paths |-> Some(paths), servers |-> servers] :
            paths \in AnalyzedPathTables, servers \in AnalyzedServers}

InitAnalyze ==
    /\ PipeIdle
    /\ EnrichIdle
    /\ ConfigIdle
    /\ CliIdle
    /\ \E doc \in AnalyzedDocs : call = [fn |-> "analyze", args |-> [spec |-> doc]]
    /\ answer = None

\* analyzer.py:29-60
Analyze ==
    /\ call.fn = "analyze"
    /\ answer = None
    /\ answer' = Some(analyze(call.args.spec))
    /\ UNCHANGED <<call, pipeVars, enrichVars, configVars, cliVars>>

NextAnalyze == Analyze

SpecAnalyze == InitAnalyze /\ [][NextAnalyze]_vars
----------------------------------------------------------------------------
(* openapi/loader.py.  A path or URI is a sequence of tokens in which "."   *)
(* is a token of its own; the content of a file or of a response is known   *)
(* by what json.loads and yaml.safe_load make of it.                        *)

LowerTokens == [JSON |-> "json", YAML |-> "yaml", YML |-> "yml"]
LowerText(text) ==
    [i \in DOMAIN text |-> IF text[i] \in DOMAIN LowerTokens THEN LowerTokens[text[i]]
                           ELSE text[i]]

LastDot(text) ==
    LET dots == {i \in DOMAIN text : text[i] = "."}
    IN IF dots = {} THEN 0 ELSE CHOOSE i \in dots : \A j \in dots : j <= i

\* uri[uri.rfind("."):]   (rfind gives -1 when there is no ".")
FromLastDot(uri) ==
    IF LastDot(uri) = 0 THEN SubSeq(uri, Len(uri), Len(uri))
    ELSE SubSeq(uri, LastDot(uri), Len(uri))

\* Path.suffix
PathSuffix(path) ==
    IF LastDot(path) <= 1 \/ LastDot(path) = Len(path) THEN <<>>
    ELSE SubSeq(path, LastDot(path), Len(path))

OpenAPILoadError(text, args) == Raise("OpenAPILoadError", text, args)

\* loader.py:66-79
_load_schema_content(content, suffix) ==
    LET lowered == LowerText(suffix)
    IN IF lowered = <<".", "json">>
       THEN IF content.json.some THEN Return(content.json.val)
            ELSE OpenAPILoadError("Failed to parse JSON: {}", <<"JSONDecodeError">>)
       ELSE IF lowered \in {<<".", "yaml">>, <<".", "yml">>}
       THEN IF content.yaml.some THEN Return(content.yaml.val)
            ELSE OpenAPILoadError("Failed to parse YAML: {}", <<"YAMLError">>)
       ELSE OpenAPILoadError("Unsupported file extension: {}", <<suffix>>)

\* loader.py:44-53
_load_http_schema(uri, response) ==
    IF ~response.some
    THEN OpenAPILoadError("Failed to fetch schema from URL: {}", <<uri>>)
    ELSE _load_schema_content(response.val, LowerText(FromLastDot(uri)))

\* loader.py:56-63
_load_local_schema(path, file) ==
    IF ~file.some
    THEN OpenAPILoadError("Failed to read file: {}", <<path>>)
    ELSE _load_schema_content(file.val, PathSuffix(path))

\* loader.py:22-41
load_openapi_spec(path, is_str, stored) ==
    LET data == IF is_str /\ path # <<>> /\ Head(path) \in {"http://", "https://", "http"}
                THEN _load_http_schema(path, stored)
                ELSE _load_local_schema(path, stored)
    IN IF ~data.ok THEN data
       ELSE IF data.value.valid THEN Return([class |-> "OpenAPI", data |-> data.value])
       ELSE OpenAPILoadError("Malformed OpenAPI specification", <<>>)
----------------------------------------------------------------------------
(* The loader on its own: one path or URI and what is stored there *)

\* parsed data: a valid OpenAPI document, or something else
LoadedData == {[valid |-> TRUE, title |-> "Minimal API"], [valid |-> FALSE, title |-> "none"]}

\* contents: JSON (which YAML reads too), JSON that YAML rejects, YAML only,
\* and text that is neither
Contents ==
    {[json |-> Some(data), yaml |-> Some(data)] : data \in LoadedData}
    \cup {[json |-> Some(data), yaml |-> None] : data \in LoadedData}
    \cup {[json |-> None, yaml |-> Some(data)] : data \in LoadedData}
    \cup {[json |-> None, yaml |-> None]}

LoadPaths ==
    {<<"spec", ".", "json">>, <<"spec", ".", "JSON">>, <<"spec", ".", "yaml">>,
     <<"spec", ".", "yml">>, <<"spec", ".", "txt">>, <<"spec">>,
     <<"my", ".", "spec", ".", "json">>, <<"http", "-", "spec", ".", "json">>,
     <<"https://", "example", ".", "org/spec", ".", "json">>,
     <<"https://", "example", ".", "org/spec", ".", "yaml">>,
     <<"https://", "example", ".", "org/spec">>,
     <<"http://", "localhost/spe", "c">>}

InitLoad ==
    /\ PipeIdle
    /\ EnrichIdle
    /\ ConfigIdle
    /\ CliIdle
    /\ \E path \in LoadPaths, is_str \in BOOLEAN,
          stored \in {None} \cup {Some(c) : c \in Contents} :
         call = [fn |-> "load_openapi_spec",
                 args |-> [path |-> path, is_str |-> is_str, stored |-> stored]]
    /\ answer = None

\* loader.py:22-41
LoadSpec ==
    /\ call.fn = "load_openapi_spec"
    /\ answer = None
    /\ answer' = Some(load_openapi_spec(call.args.path, call.args.is_str, call.args.stored))
    /\ UNCHANGED <<call, pipeVars, enrichVars, configVars, cliVars>>

NextLoad == LoadSpec

SpecLoad == InitLoad /\ [][NextLoad]_vars
----------------------------------------------------------------------------
(* config.py and commands/manage/roles.py: the roles of the configuration. *)
(* A UUID is a number; str() of it keeps the order of the numbers.          *)

\* the UUIDs of the model
RoleIds == {1, 2}
\* the longest role list of a configuration that is loaded
MaxLoadedRoles == 2
\* the longest role list the commands are run on
MaxRoles == 4

RoleTypes == <<"group", "identity">>
RoleAccessLevel == {"owner", "admin", "viewer"}
RoleConfig(type, id, access_level) == [type |-> type, id |-> id, access_level |-> access_level]

\* str(UUID)
UuidText(id) == <<"uuid", id>>

\* config.py:129-132  RoleConfig.sort_key, and the order of two keys
sort_key(role) == <<role.type, UuidText(role.id)>>
TypeRank(type) == CHOOSE i \in DOMAIN RoleTypes : RoleTypes[i] = type
KeyBefore(k1, k2) ==
    \/ TypeRank(k1[1]) < TypeRank(k2[1])
    \/ k1[1] = k2[1] /\ k1[2][2] < k2[2][2]

\* list.sort(key=lambda r: r.sort_key): a stable sort; the element at index
\* i goes behind the elements of a smaller key and the earlier ones of its key
SortedPlace(roles, i) ==
    1 + Cardinality({j \in DOMAIN roles :
                        \/ KeyBefore(sort_key(roles[j]), sort_key(roles[i]))
                        \/ j < i /\ ~KeyBefore(sort_key(roles[i]), sort_key(roles[j]))})
SortRoles(roles) ==
    [p \in DOMAIN roles |-> roles[CHOOSE i \in DOMAIN roles : SortedPlace(roles, i) = p]]

\* publish.py:72  target.registered_api_id: None until publish set it
registered_api_id(target) ==
    IF "registered_api_id" \in DOMAIN target THEN target.registered_api_id ELSE None

\* a target as model_dump_json writes it: the ID, when there is one, as text
DumpTarget(target) ==
    IF registered_api_id(target).some
    THEN [target EXCEPT !.registered_api_id = Some(UuidText(@.val))]
    ELSE target

\* a target as model_validate_json reads it: the text of the ID as a UUID
LoadTarget(target) ==
    IF registered_api_id(target).some
    THEN [target EXCEPT !.registered_api_id = Some(@.val[2])]
    ELSE target

\* config.py:35-40  model_dump_json: what commit writes
model_dump_json(cfg) ==
    [roles |-> [i \in DOMAIN cfg.roles |->
                   [type |-> cfg.roles[i].type, id |-> UuidText(cfg.roles[i].id),
                    access_level |-> cfg.roles[i].access_level]],
     targets |-> [i \in DOMAIN cfg.targets |-> DumpTarget(cfg.targets[i])]]

\* config.py:42-55  model_validate_json: what load reads
model_validate_json(text) ==
    [roles |-> [i \in DOMAIN text.roles |->
                   RoleConfig(text.roles[i].type, text.roles[i].id[2],
                              text.roles[i].access_level)],
     targets |-> [i \in DOMAIN text.targets |-> LoadTarget(text.targets[i])]]

\* list.remove: the first element equal to the role leaves
ListRemove(roles, role) ==
    LET hits == {i \in DOMAIN roles : roles[i] = role}
        first == CHOOSE i \in hits : \A j \in hits : i <= j
    IN SubSeq(roles, 1, first - 1) \o SubSeq(roles, first + 1, Len(roles))

CommandOutcome(cfg, commit, echo) == [config |-> cfg, commit |-> commit, echo |-> echo]

\* an add_role without the check of the existing roles
add_role_Unchecked(cfg, role_type, entity_id, access_level) ==
    CommandOutcome([cfg EXCEPT !.roles =
                 SortRoles(Append(@, RoleConfig(role_type, entity_id, access_level)))],
            TRUE, <<>>)

\* roles.py:101-120
add_role(cfg, role_type, entity_id, access_level) ==
    LET existing_roles == {<<cfg.roles[i].type, cfg.roles[i].id>> : i \in DOMAIN cfg.roles}
    IN IF <<role_type, entity_id>> \in existing_roles
       THEN CommandOutcome(cfg, FALSE,
                    <<"This entity already has a role configured.",
                      "Please use the 'Modify Role' option instead.">>)
       ELSE CommandOutcome([cfg EXCEPT !.roles =
                         SortRoles(Append(@, RoleConfig(role_type, entity_id, access_level)))],
                    TRUE, <<>>)

\* roles.py:84-99  the role chosen is the one at index selected
modify_role(cfg, selected, access_level) ==
    CommandOutcome([cfg EXCEPT !.roles =
                 SortRoles([@ EXCEPT ![selected].access_level = access_level])],
            TRUE, <<>>)

\* roles.py:122-129
remove_role(cfg, selected, confirmed) ==
    IF confirmed
    THEN CommandOutcome([cfg EXCEPT !.roles = ListRemove(@, cfg.roles[selected])], TRUE, <<>>)
    ELSE CommandOutcome(cfg, FALSE, <<>>)
----------------------------------------------------------------------------
(* The role commands of `manage`, run in any order on a loaded configuration *)

Entities == {<<RoleTypes[t], id>> : t \in DOMAIN RoleTypes, id \in RoleIds}

\* role lists with no two roles of the same (type, id), in any order
LoadedRoleLists ==
    UNION {{roles \in [1..n -> {RoleConfig(e[1], e[2], a) : e \in Entities,
                                                            a \in RoleAccessLevel}] :
               \A i, j \in 1..n : (roles[i].type = roles[j].type /\ roles[i].id = roles[j].id)
                                   => i = j} :
           n \in 0..MaxLoadedRoles}

\* config.py:42-55  the configuration is the one read from the file
InitRoles ==
    /\ PipeIdle
    /\ EnrichIdle
    /\ UnitIdle
    /\ CliIdle
    /\ \E roles \in LoadedRoleLists :
         /\ config_file = Some(model_dump_json([roles |-> roles, targets |-> <<>>]))
         /\ api_config = Some(model_validate_json(config_file.val))

\* what a command leaves: the configuration, the file if it committed, its output
Ran(fn, args, outcome) ==
    /\ call' = [fn |-> fn, args |-> args]
    /\ answer' = Some(Return(outcome.echo))
    /\ api_config' = Some(outcome.config)
    /\ config_file' = IF outcome.commit THEN Some(model_dump_json(outcome.config))
                      ELSE config_file
    /\ UNCHANGED <<pipeVars, enrichVars, cliVars>>

\* roles.py:101-120
AddRole ==
    /\ api_config.some
    /\ Len(api_config.val.roles) < MaxRoles
    /\ \E e \in Entities, access_level \in RoleAccessLevel :
         Ran("add_role", [type |-> e[1], id |-> e[2]],
             add_role(api_config.val, e[1], e[2], access_level))

\* roles.py:84-99
ModifyRole ==
    /\ api_config.some
    /\ \E selected \in DOMAIN api_config.val.roles, access_level \in RoleAccessLevel :
         Ran("modify_role", [type |-> api_config.val.roles[selected].type,
                             id |-> api_config.val.roles[selected].id],
             modify_role(api_config.val, selected, access_level))

\* roles.py:122-129
RemoveRole ==
    /\ api_config.some
    /\ \E selected \in DOMAIN api_config.val.roles, confirmed \in BOOLEAN :
         Ran("remove_role", [type |-> api_config.val.roles[selected].type,
                             id |-> api_config.val.roles[selected].id],
             remove_role(api_config.val, selected, confirmed))

NextRoles == AddRole \/ ModifyRole \/ RemoveRole

SpecRoles == InitRoles /\ [][NextRoles]_vars
----------------------------------------------------------------------------
(* commands/manage/roles.py: _GroupNameResolver and _IdentityNameResolver.  *)
(* The remote service answers a lookup with entries for IDs that were asked *)
(* for; an entry may lack its name, and a group result may hold no entry.   *)

\* the longest list of IDs given to populate_cache
MaxBatch == 2

ResolverIds == {1, 2, 3}
ResolverNames == {S("leos"), S("toruses")}
ResolverClasses == {"_GroupNameResolver", "_IdentityNameResolver"}

\* what the remote service holds for one ID that was asked for
RemoteAnswers(class) ==
    {[kind |-> "named", name |-> n] : n \in ResolverNames}
    \cup {[kind |-> k, name |-> <<>>] :
            k \in {"absent", "nameless"}
                  \cup (IF class = "_GroupNameResolver" THEN {"no entries"} ELSE {})}

\* roles.py:313-321, 365-372  the entries of the response that are stored:
\* a KeyError or IndexError on an entry skips it
StoreNames(cache, response) ==
    [id \in DOMAIN cache \cup {x \in DOMAIN response : response[x].kind = "named"} |->
        IF id \in DOMAIN response /\ response[id].kind = "named"
        THEN Some(response[id].name) ELSE cache[id]]

\* a populate_cache that leaves the IDs without a name out of the cache
MarkUnresolved_Skip(cache, ids) == cache

\* roles.py:323-326, 374-376
MarkUnresolved(cache, ids) ==
    [id \in DOMAIN cache \cup ids |-> IF id \in DOMAIN cache THEN cache[id] ELSE None]

\* roles.py:296-298, 359-361  the IDs a populate_cache call asks the service for
Uncached(cache, ids) == {ids[i] : i \in DOMAIN ids} \ DOMAIN cache

\* roles.py:287-326, 350-376  with the response of the service to the lookup
populate_cache(cache, ids, response) ==
    IF Uncached(cache, ids) = {} THEN cache
    ELSE MarkUnresolved(StoreNames(cache, response), Uncached(cache, ids))

\* roles.py:285, 348  self._name_cache[id]
CacheGet(cache, id) ==
    IF id \in DOMAIN cache THEN Return(cache[id]) ELSE Raise("KeyError", "{}", <<id>>)
----------------------------------------------------------------------------
(* A name resolver on its own: resolve and populate_cache in any order *)

IdLists == UNION {[1..n -> ResolverIds] : n \in 0..MaxBatch}

\* roles.py:272-274, 335-337
InitResolver ==
    /\ PipeIdle
    /\ EnrichIdle
    /\ UnitIdle
    /\ ConfigIdle
    /\ MenuIdle
    /\ ToolIdle
    /\ \E class \in ResolverClasses : name_cache = Some([class |-> class, cache |-> <<>>])
    /\ lookups = [id \in ResolverIds |-> 0]

\* one remote lookup for the IDs asked: each of them is counted
Asked(ids) ==
    [id \in ResolverIds |-> IF id \in ids THEN Min(lookups[id] + 1, MaxCount) ELSE lookups[id]]

\* roles.py:287-326, 350-376
PopulateCache ==
    /\ name_cache.some
    /\ \E ids \in IdLists :
         LET asked == Uncached(name_cache.val.cache, ids)
         IN \E response \in [asked -> RemoteAnswers(name_cache.val.class)] :
              /\ name_cache' = Some([name_cache.val EXCEPT
                                       !.cache = populate_cache(@, ids, response)])
              /\ lookups' = Asked(asked)
              /\ call' = [fn |-> "populate_cache", args |-> [ids |-> ids]]
              /\ answer' = Some(Return(None))
    /\ UNCHANGED <<pipeVars, enrichVars, configVars, menuVars, toolVars>>

\* roles.py:276-285, 339-348
Resolve ==
    /\ name_cache.some
    /\ \E id \in ResolverIds :
         LET asked == Uncached(name_cache.val.cache, <<id>>)
         IN \E response \in [asked -> RemoteAnswers(name_cache.val.class)] :
              LET cache == IF id \notin DOMAIN name_cache.val.cache
                           THEN populate_cache(name_cache.val.cache, <<id>>, response)
                           ELSE name_cache.val.cache
              IN /\ name_cache' = Some([name_cache.val EXCEPT !.cache = cache])
                 /\ lookups' = Asked(asked)
                 /\ call' = [fn |-> "resolve", args |-> [id |-> id]]
                 /\ answer' = Some(CacheGet(cache, id))
    /\ UNCHANGED <<pipeVars, enrichVars, configVars, menuVars, toolVars>>

NextResolver == PopulateCache \/ Resolve

SpecResolver == InitResolver /\ [][NextResolver]_vars
----------------------------------------------------------------------------
(* commands/manage/targets.py: the targets of the configuration *)

\* the longest target list the commands are run on
MaxTargetConfigs == 2

\* config.py:78-107
TargetConfig(path, method, alias, scope_strings) ==
    [path |-> path, method |-> method, alias |-> alias, scope_strings |-> scope_strings]

\* the strings of the model in the order Python compares them
PathRank == <<PathA, <<"/", "a", "/", "{id}">>, PathB, <<"b">> >>
MethodRank == <<"DELETE", "GET", "HEAD", "OPTIONS", "PATCH", "POST", "PUT", "TRACE">>
AliasRank == <<S("create"), S("list")>>
RankIn(order, x) == CHOOSE i \in DOMAIN order : order[i] = x

\* config.py:97-100  TargetConfig.sort_key, and the order of two keys
TargetKeyBefore(t1, t2) ==
    LET k1 == <<RankIn(PathRank, t1.path), RankIn(MethodRank, t1.method),
                RankIn(AliasRank, t1.alias)>>
        k2 == <<RankIn(PathRank, t2.path), RankIn(MethodRank, t2.method),
                RankIn(AliasRank, t2.alias)>>
    IN \/ k1[1] < k2[1]
       \/ k1[1] = k2[1] /\ k1[2] < k2[2]
       \/ k1[1] = k2[1] /\ k1[2] = k2[2] /\ k1[3] < k2[3]

\* list.sort(key=lambda ta: ta.sort_key): a stable sort
TargetPlace(targets, i) ==
    1 + Cardinality({j \in DOMAIN targets :
                        \/ TargetKeyBefore(targets[j], targets[i])
                        \/ j < i /\ ~TargetKeyBefore(targets[i], targets[j])})
SortTargets(targets) ==
    [p \in DOMAIN targets |->
        targets[CHOOSE i \in DOMAIN targets : TargetPlace(targets, i) = p]]

\* dict.get of scopes_by_target: the scopes the analysis has for a specifier
AnalysisScopes(analysis, sp) ==
    LET hits == {i \in DOMAIN analysis.scopes_by_target :
                    analysis.scopes_by_target[i][1] = sp}
    IN IF hits = {} THEN <<>> ELSE analysis.scopes_by_target[CHOOSE i \in hits : TRUE][2]

\* targets.py:144-161  the specifiers of the spec that are not configured
UnconfiguredSpecTargets(cfg, analysis) ==
    {analysis.targets[i] : i \in DOMAIN analysis.targets}
    \ {TargetConfig_specifier(cfg.targets[i]).value : i \in DOMAIN cfg.targets}

\* targets.py:163-181  prompt_specifier with what the user chose: a target of
\* the spec, or a path and a method typed in
prompt_specifier(cfg, analysis, choice) ==
    IF UnconfiguredSpecTargets(cfg, analysis) # {} /\ choice.from_spec
    THEN Return(choice.specifier)
    ELSE TargetSpecifier(choice.method, choice.path, S("*"))

\* targets.py:189-213  the scopes may be chosen only when the spec has none
prompt_for_new_target(analysis, sp, chosen) ==
    IF AnalysisScopes(analysis, sp) # <<>> THEN <<>> ELSE chosen

\* targets.py:215-234
prompt_for_existing_target(analysis, target, chosen) ==
    IF AnalysisScopes(analysis, TargetConfig_specifier(target).value) # <<>>
       /\ target.scope_strings = <<>>
    THEN <<>> ELSE chosen

\* targets.py:93-111  a specifier that cannot be built raises before any change
add_target(cfg, analysis, choice, alias, chosen) ==
    LET target_specifier == prompt_specifier(cfg, analysis, choice)
    IN IF ~target_specifier.ok THEN target_specifier
       ELSE Return(CommandOutcome(
                [cfg EXCEPT !.targets =
                    SortTargets(Append(@,
                        TargetConfig(target_specifier.value.path,
                                     target_specifier.value.method, alias,
                                     prompt_for_new_target(analysis, target_specifier.value,
                                                           chosen))))],
                TRUE, <<>>))

\* targets.py:85-91
modify_target(cfg, analysis, selected, alias, chosen) ==
    Return(CommandOutcome(
        [cfg EXCEPT !.targets =
            SortTargets([@ EXCEPT ![selected] =
                TargetConfig(@.path, @.method, alias,
                             prompt_for_existing_target(
                                 analysis, [cfg.targets[selected] EXCEPT !.alias = alias],
                                 chosen))])],
        TRUE, <<>>))

\* targets.py:113-116
remove_target(cfg, selected) ==
    Return(CommandOutcome([cfg EXCEPT !.targets = ListRemove(@, cfg.targets[selected])],
                          TRUE, <<>>))
----------------------------------------------------------------------------
(* commands/manage/dispatch.py: the menu loop of `gra manage`.  An option   *)
(* is the object prompt_selection returns: a sentinel, a bound method or a  *)
(* menu (a list).                                                           *)

EXIT_SENTINEL == [class |-> "ExitSentinel", value |-> <<>>]
BACK_SENTINEL == [class |-> "BackSentinel", value |-> <<>>]
BoundMethod(name) == [class |-> "method", value |-> <<name>>]
MenuList(menu) == [class |-> "list", value |-> menu]

\* targets.py:55-64, roles.py:69-78
target_menu_options ==
    << <<BoundMethod("display_target"), "Display Target">>,
       <<BoundMethod("list_targets"), "List Targets">>,
       <<BoundMethod("modify_target"), "Modify Target">>,
       <<BoundMethod("add_target"), "Add Target">>,
       <<BoundMethod("remove_target"), "Remove Target">> >>
role_menu_options ==
    << <<BoundMethod("list_roles"), "List Roles">>,
       <<BoundMethod("modify_role"), "Modify Role">>,
       <<BoundMethod("add_role"), "Add Role">>,
       <<BoundMethod("remove_role"), "Remove Role">> >>

\* dispatch.py:61-72
ControlOptions == << <<BACK_SENTINEL, "<Back>">>, <<EXIT_SENTINEL, "<Exit>">> >>
target_menu == target_menu_options \o ControlOptions
role_menu == role_menu_options \o ControlOptions
_create_main_menu ==
    << <<MenuList(target_menu), "Targets">>,
       <<MenuList(role_menu), "Roles">>,
       <<EXIT_SENTINEL, "<Exit>">> >>

\* a loop in which <Back> is taken for a sub-menu
NextMenu_BackDescends(menu, option) ==
    IF option.class \in {"BackSentinel", "list"} THEN option.value ELSE menu

\* dispatch.py:47-58  the menu shown after an option that does not exit
NextMenu(menu, option) ==
    IF option.class = "BackSentinel" THEN _create_main_menu
    ELSE IF option.class = "method" THEN menu
    ELSE option.value

\* the document of the managed repository, and its analysis
ManagedSpec ==
    [paths |-> Some(<< <<PathA,
                         [m \in {"get", "post"} |->
                             Some([security |->
                                     IF m = "get"
                                     THEN Some(<< << <<"GlobusAuth", <<AnalyzerScopes[1]>> >> >> >>)
                                     ELSE None])]>> >>),
     servers |-> <<>>]
ManagedAnalysis == analyze(ManagedSpec).value

\* what the user may enter in the prompts of the subcommands
ManagedEntities == {<<"group", 1>>}
TypedPaths == {PathB, <<"b">>}
TargetChoices(cfg) ==
    {[from_spec |-> TRUE, specifier |-> sp, method |-> "GET", path |-> <<>>] :
        sp \in UnconfiguredSpecTargets(cfg, ManagedAnalysis)}
    \cup {[from_spec |-> FALSE, specifier |-> <<>>, method |-> "GET", path |-> p] :
            p \in TypedPaths}
Aliases == {AliasRank[i] : i \in DOMAIN AliasRank}
ChosenScopes == {<<>>, <<AnalyzerScopes[2]>>}

\* the subcommands: what a call of the bound method may return or raise.  A
\* prompt for a configured role or target has no answer when none is configured.
SubcommandResults(name, cfg) ==
    CASE name \in {"list_roles", "list_targets"} ->
            {Return(CommandOutcome(cfg, FALSE, <<>>))}
      [] name = "display_target" ->
            {Return(CommandOutcome(cfg, FALSE, <<>>)) : i \in DOMAIN cfg.targets}
      [] name = "add_role" ->
            {Return(add_role(cfg, e[1], e[2], a)) :
                e \in {x \in ManagedEntities : Len(cfg.roles) < MaxRoles},
                a \in RoleAccessLevel}
      [] name = "modify_role" ->
            {Return(modify_role(cfg, i, a)) : i \in DOMAIN cfg.roles, a \in RoleAccessLevel}
      [] name = "remove_role" ->
            {Return(remove_role(cfg, i, c)) : i \in DOMAIN cfg.roles, c \in BOOLEAN}
      [] name = "add_target" ->
            {add_target(cfg, ManagedAnalysis, choice, alias, chosen) :
                choice \in {x \in TargetChoices(cfg) : Len(cfg.targets) < MaxTargetConfigs},
                alias \in Aliases, chosen \in ChosenScopes}
      [] name = "modify_target" ->
            {modify_target(cfg, ManagedAnalysis, i, alias, chosen) :
                i \in DOMAIN cfg.targets, alias \in Aliases, chosen \in ChosenScopes}
      [] name = "remove_target" ->
            {remove_target(cfg, i) : i \in DOMAIN cfg.targets}
----------------------------------------------------------------------------
(* The manage command: the loop from the main menu on *)

\* dispatch.py:40-43
InitManage ==
    /\ PipeIdle
    /\ EnrichIdle
    /\ UnitIdle
    /\ ResolverIdle
    /\ ToolIdle
    /\ config_file = Some(model_dump_json([roles |-> <<>>, targets |-> <<>>]))
    /\ api_config = Some(model_validate_json(config_file.val))
    /\ current_menu = _create_main_menu
    /\ menu_pc = "prompt"

Selected(i) == [fn |-> "prompt_selection", args |-> [label |-> current_menu[i][2]]]

\* dispatch.py:47-49
SelectExit ==
    /\ menu_pc = "prompt"
    /\ \E i \in DOMAIN current_menu :
         /\ current_menu[i][1].class = "ExitSentinel"
         /\ call' = Selected(i)
    /\ answer' = None
    /\ menu_pc' = "exited"
    /\ UNCHANGED <<current_menu, pipeVars, enrichVars, configVars, resolverVars, toolVars>>

\* dispatch.py:50-52, 56-58
SelectMenu ==
    /\ menu_pc = "prompt"
    /\ \E i \in DOMAIN current_menu :
         /\ current_menu[i][1].class \in {"BackSentinel", "list"}
         /\ call' = Selected(i)
         /\ current_menu' = NextMenu(current_menu, current_menu[i][1])
    /\ answer' = None
    /\ UNCHANGED <<menu_pc, pipeVars, enrichVars, configVars, resolverVars, toolVars>>

\* dispatch.py:53-55  a subcommand that returns leaves the loop running; one
\* that raises ends the command
SelectSubcommand ==
    /\ menu_pc = "prompt"
    /\ \E i \in DOMAIN current_menu :
         /\ current_menu[i][1].class = "method"
         /\ call' = Selected(i)
         /\ current_menu' = NextMenu(current_menu, current_menu[i][1])
         /\ \E res \in SubcommandResults(current_menu[i][1].value[1], api_config.val) :
              IF res.ok
              THEN /\ api_config' = Some(res.value.config)
                   /\ config_file' = IF res.value.commit
                                     THEN Some(model_dump_json(res.value.config))
                                     ELSE config_file
                   /\ answer' = Some(Return(res.value.echo))
                   /\ menu_pc' = "prompt"
              ELSE /\ answer' = Some(res)
                   /\ menu_pc' = "raised"
                   /\ UNCHANGED configVars
    /\ UNCHANGED <<pipeVars, enrichVars, resolverVars, toolVars>>

NextManage == SelectExit \/ SelectMenu \/ SelectSubcommand

SpecManage == InitManage /\ [][NextManage]_vars
----------------------------------------------------------------------------
(* commands/build.py and manifest.py: the build command.  The enricher    *)
(* works on a deep copy that nothing else refers to, so the copy is a      *)
(* value: paths, operations and security lists are replaced, not shared.   *)

\* oa.Operation(): the operation _ensure_exists makes for a missing method
EmptyOperation == [requestBody |-> None, responses |-> None, security |-> None]

\* security_scheme.py:31-54 on the copy: the paths with the operation of the
\* specifier, created with its path item when missing
_ensure_exists_copy(doc, sp) ==
    LET paths == IF doc.paths.some THEN doc.paths.val ELSE <<>>
        known == {i \in DOMAIN paths : paths[i][1] = sp.path}
        with_item == IF known # {} THEN paths
                     ELSE Append(paths, <<sp.path, [m \in LowerMethods |-> None]>>)
        at == CHOOSE i \in DOMAIN with_item : with_item[i][1] = sp.path
        path_item == with_item[at][2]
        method_key == Lower(sp.method)
    IN IF path_item[method_key].some THEN [doc EXCEPT !.paths = Some(with_item)]
       ELSE [doc EXCEPT !.paths =
                Some([with_item EXCEPT
                        ![at] = <<sp.path,
                                  [path_item EXCEPT ![method_key] = Some(EmptyOperation)]>>])]

\* security_scheme.py:56-90 on the copy
_validate_and_update_copy(doc, sp, target) ==
    LET at == CHOOSE i \in DOMAIN doc.paths.val : doc.paths.val[i][1] = sp.path
        method_key == Lower(sp.method)
        operation == doc.paths.val[at][2][method_key].val
        security == IF operation.security.some THEN operation.security.val ELSE <<>>
        updated == InsertMissing(security, predefined_scopes(security),
                                 target.scope_strings)
    IN IF updated = <<>> THEN doc
       ELSE [doc EXCEPT !.paths.val[at][2][method_key].val.security = Some(updated)]

\* security_scheme.py:26-29  InjectSecuritySchemes.mutate on the copy
RECURSIVE mutate_copy(_, _)
mutate_copy(targets, doc) ==
    IF targets = <<>> THEN Return(doc)
    ELSE LET sp == TargetConfig_specifier(Head(targets))
         IN IF ~sp.ok THEN sp
            ELSE mutate_copy(Tail(targets),
                             _validate_and_update_copy(
                                 _ensure_exists_copy(doc, sp.value), sp.value,
                                 Head(targets)))

\* servers.py:11-12  InjectBaseUrl.mutate
InjectBaseUrl_mutate(base_url, doc) == [doc EXCEPT !.servers = <<base_url>>]

\* OpenAPIEnricher(config).enrich(spec) of build.py:26: the mutations of
\* openapi/enricher applied in sequence to a deep copy
ConfigEnricher_enrich(cfg, base_url, schema) ==
    LET secured == mutate_copy(cfg.targets, schema)
    IN IF ~secured.ok THEN secured
       ELSE Return(InjectBaseUrl_mutate(base_url, secured.value))

\* manifest.py:44-64  ComputedRegisteredAPI, and what its serializer writes
ComputedRegisteredAPI(target) == [target |-> target]
serialize_target(api) == [target |-> to_dict(api.target)]

\* manifest.py:18-24  RegisteredAPIManifest.model_dump_json: the dict of
\* targets, key by key
manifest_dump_json(build_timestamp, targets) ==
    [build_timestamp |-> build_timestamp,
     targets |-> [map |-> [alias \in DictKeys(targets) |->
                             serialize_target(targets.map[alias])],
                  order |-> targets.order]]

\* a loop that writes the manifest after every target
manifest_in_loop_Commit(file, targets) == Some(manifest_dump_json("now", targets))

\* build.py:29-31  the loop computes in memory: the file is as it was
manifest_in_loop(file, targets) == file
----------------------------------------------------------------------------
(* A repository: targets are added and modified, then build runs once *)

BuildOp(body, responses) ==
    [requestBody |-> body, responses |-> Some(responses), security |-> None]
BuildSchemas ==
    Some((S("A") :> SchemaArray(SchemaRef(S("B")))) @@ (S("B") :> SchemaLeaf))

\* the specification of the repository: GET /a, whose response refers to the
\* schema A, and POST /a with a request body
BuildSpecs ==
    {[paths |-> Some(<< <<PathA, PathItem([get |-> BuildOp(None,
                                                          ResponsesWith(SchemaRef(S("A")))),
                                          post |-> BuildOp(body, ResponsesPlain)])>> >>),
      servers |-> <<>>,
      schemas |-> BuildSchemas] :
        body \in Bodies}

\* core.specification is an inline document, or a path that is still to be loaded
Cores ==
    {[base_url |-> ExampleServer, specification |-> doc, inline |-> inline] :
        doc \in BuildSpecs, inline \in BOOLEAN}

\* build.py:19-24  what reading the specification gives
LoadedSpecification(c) ==
    IF c.inline THEN {Return(c.specification)}
    ELSE {Return(c.specification),
          Raise("OpenAPILoadError", "Failed to read file: {}", <<>>)}

\* the manifest an earlier build wrote, when no target was configured yet
EarlierManifest == manifest_dump_json("earlier", EmptyDict)

BuildAnalysis == analyze(core.val.specification).value
BuildChoices(cfg) ==
    {[from_spec |-> TRUE, specifier |-> sp, method |-> "GET", path |-> <<>>] :
        sp \in UnconfiguredSpecTargets(cfg, BuildAnalysis)}
    \cup {[from_spec |-> FALSE, specifier |-> <<>>, method |-> "GET", path |-> PathB]}

InitBuild ==
    /\ PipeIdle
    /\ EnrichIdle
    /\ UnitIdle
    /\ ResolverIdle
    /\ MenuIdle
    /\ PublishIdle
    /\ config_file = Some(model_dump_json([roles |-> <<>>, targets |-> <<>>]))
    /\ api_config = Some(model_validate_json(config_file.val))
    /\ \E c \in Cores : core = Some(c)
    /\ manifest_file \in {None, Some(EarlierManifest)}
    /\ build_pc = "ready"
    /\ enriched_spec = None
    /\ build_todo = <<>>
    /\ registered_apis = EmptyDict
    /\ build_error = None

\* a command of `manage` that returned: the configuration it left, committed
Managed(outcome) ==
    /\ outcome.ok
    /\ api_config' = Some(outcome.value.config)
    /\ config_file' = Some(model_dump_json(outcome.value.config))
    /\ UNCHANGED <<buildVars, publishVars, pipeVars, enrichVars, unitVars,
                   resolverVars, menuVars>>

\* targets.py:94-112
\* the sizes of the target list at which the build model still adds a target
BuildTargetCounts == {0, 1}

BuildAddTarget ==
    /\ build_pc = "ready"
    /\ Len(api_config.val.targets) \in BuildTargetCounts
    /\ \E choice \in BuildChoices(api_config.val), alias \in Aliases, chosen \in ChosenScopes :
         Managed(add_target(api_config.val, BuildAnalysis, choice, alias, chosen))

\* targets.py:86-92
BuildModifyTarget ==
    /\ build_pc = "ready"
    /\ \E i \in DOMAIN api_config.val.targets, alias \in Aliases, chosen \in ChosenScopes :
         Managed(modify_target(api_config.val, BuildAnalysis, i, alias, chosen))

BuildFailed(exception) ==
    /\ build_pc' = "failed"
    /\ build_error' = Some(exception)

\* build.py:17-28  the configuration is read, the specification loaded and enriched
BuildStart ==
    /\ build_pc = "ready"
    /\ LET cfg == model_validate_json(config_file.val)
       IN /\ api_config' = Some(cfg)
          /\ \E loaded \in LoadedSpecification(core.val) :
               IF ~loaded.ok
               THEN /\ BuildFailed(loaded.error)
                    /\ UNCHANGED <<enriched_spec, build_todo, registered_apis>>
               ELSE LET enriched == ConfigEnricher_enrich(cfg, core.val.base_url,
                                                          loaded.value)
                    IN IF ~enriched.ok
                       THEN /\ BuildFailed(enriched.error)
                            /\ UNCHANGED <<enriched_spec, build_todo, registered_apis>>
                       ELSE /\ enriched_spec' = Some(enriched.value)
                            /\ build_todo' = cfg.targets
                            /\ registered_apis' = EmptyDict
                            /\ build_pc' = "targets"
                            /\ UNCHANGED build_error
    /\ UNCHANGED <<config_file, core, manifest_file, publishVars, pipeVars, enrichVars,
                   unitVars, resolverVars, menuVars>>

\* build.py:30  target.specifier is made and process_target is entered
BuildTarget ==
    /\ build_pc = "targets"
    /\ build_todo # <<>>
    /\ LET sp == TargetConfig_specifier(Head(build_todo))
       IN IF ~sp.ok
          THEN /\ BuildFailed(sp.error)
               /\ UNCHANGED pipeVars
          ELSE /\ build_pc' = "processing"
               /\ pc' = "start"
               /\ spec' = enriched_spec.val
               /\ specifier' = Some(sp.value)
               /\ UNCHANGED <<build_error, target_info, error, schemas_to_process,
                              processed_refs, collected_schemas, result, pop_count,
                              insert_count>>
    /\ UNCHANGED <<configVars, core, manifest_file, enriched_spec, build_todo,
                   registered_apis, publishVars, enrichVars, unitVars, resolverVars,
                   menuVars>>

\* build.py:30  process_target raised: the exception ends the command
BuildRaise ==
    /\ build_pc = "processing"
    /\ pc = "failed"
    /\ BuildFailed(error.val)
    /\ UNCHANGED <<configVars, core, manifest_file, enriched_spec, build_todo,
                   registered_apis, publishVars, pipeVars, enrichVars, unitVars,
                   resolverVars, menuVars>>

\* build.py:31  the computed target is kept under the alias; the loop goes on
BuildStore ==
    /\ build_pc = "processing"
    /\ pc = "done"
    /\ registered_apis' = DictSet(registered_apis, Head(build_todo).alias,
                                  ComputedRegisteredAPI(result.val))
    /\ build_todo' = Tail(build_todo)
    /\ manifest_file' = manifest_in_loop(manifest_file, registered_apis')
    /\ build_pc' = "targets"
    /\ pc' = "idle"
    /\ spec' = None
    /\ specifier' = None
    /\ target_info' = None
    /\ result' = None
    /\ schemas_to_process' = {}
    /\ processed_refs' = {}
    /\ collected_schemas' = EmptyDict
    /\ pop_count' = [r \in RefsU |-> 0]
    /\ insert_count' = [n \in Names |-> 0]
    /\ UNCHANGED <<error, configVars, core, enriched_spec, build_error, publishVars,
                   enrichVars, unitVars, resolverVars, menuVars>>

\* build.py:33-40  the manifest is made and written
BuildCommit ==
    /\ build_pc = "targets"
    /\ build_todo = <<>>
    /\ manifest_file' = Some(manifest_dump_json("now", registered_apis))
    /\ build_pc' = "done"
    /\ UNCHANGED <<configVars, core, enriched_spec, build_todo, registered_apis,
                   build_error, publishVars, pipeVars, enrichVars, unitVars,
                   resolverVars, menuVars>>

\* processor.py:70-71: find_target and reduce_to_target run as in process_target
NextBuild ==
    \/ BuildAddTarget \/ BuildModifyTarget \/ BuildStart \/ BuildTarget
    \/ FindTarget \/ ReduceStart \/ CollectPop \/ CollectExit
    \/ BuildRaise \/ BuildStore \/ BuildCommit

SpecBuild == InitBuild /\ [][NextBuild]_vars

(***************************************************************************)
(* commands/publish.py: the publish command, run on the repository that    *)
(* manage and build left, against the remote Flows service                 *)
(***************************************************************************)

MaxPublishRuns == 2

\* publish.py:34  sorted(target_aliases): equal aliases keep their order
AliasPlace(aliases, i) ==
    1 + Cardinality({j \in DOMAIN aliases :
                        \/ RankIn(AliasRank, aliases[j]) < RankIn(AliasRank, aliases[i])
                        \/ j < i /\ aliases[j] = aliases[i]})
SortedAliases(aliases) ==
    [p \in DOMAIN aliases |->
        aliases[CHOOSE i \in DOMAIN aliases : AliasPlace(aliases, i) = p]]

\* publish.py:19-24  --target-alias: not given, or one alias
TargetAliasOptions == {<<>>} \cup {<<alias>> : alias \in Aliases}

\* publish.py:32-34
target_aliases(cfg, option) ==
    SortedAliases(IF option = <<>>
                  THEN [i \in DOMAIN cfg.targets |-> cfg.targets[i].alias]
                  ELSE option)

\* publish.py:63  {target.alias: target for target in config.targets}: the
\* place of the target the index holds for an alias (the last one), or 0
_config_index(cfg, alias) ==
    LET at == {i \in DOMAIN cfg.targets : cfg.targets[i].alias = alias}
    IN IF at = {} THEN 0 ELSE CHOOSE i \in at : \A j \in at : j <= i

\* publish.py:109-126  validate_target_aliases
validate_target_aliases(cfg, manifest, aliases) ==
    LET missing_config == {i \in DOMAIN aliases : _config_index(cfg, aliases[i]) = 0}
        missing_manifest == {i \in DOMAIN aliases :
                                aliases[i] \notin DictKeys(manifest.targets)}
    IN IF missing_config # {} \/ missing_manifest # {}
       THEN Raise("Abort", "", <<>>)
       ELSE Return(aliases)

\* what the Flows service answers to a create or an update
FlowsAnswers == {"ok", "GlobusAPIError"}

\* publish.py:83-90  create_registered_api: the service makes a new API
create_registered_api(apis, name, target) ==
    Append(apis, [id |-> UuidText(Len(apis) + 1), name |-> name, target |-> target])

\* publish.py:99-106  update_registered_api
update_registered_api(apis, id, name, target) ==
    [n \in DOMAIN apis |->
        IF apis[n].id = UuidText(id) THEN [apis[n] EXCEPT !.name = name, !.target = target]
        ELSE apis[n]]

\* publish.py:92  target_config.registered_api_id = UUID(result["id"])
SetRegisteredApiId(cfg, i, created) ==
    [cfg EXCEPT !.targets[i] = [registered_api_id |-> Some(created.id[2])] @@ @]

PublishEnded(outcome, exception) ==
    /\ publish_pc' = outcome
    /\ publish_error' = exception

\* publish.py:31-47  load, validate, confirm
PublishStart ==
    /\ build_pc \in {"done", "failed"}
    /\ publish_pc \in {"idle", "done", "failed", "aborted"}
    /\ publish_runs < MaxPublishRuns
    /\ publish_runs' = publish_runs + 1
    /\ LET cfg == model_validate_json(config_file.val)
       IN /\ api_config' = Some(cfg)
          /\ \E option \in TargetAliasOptions, proceed \in BOOLEAN :
               LET aliases == target_aliases(cfg, option)
                   valid == IF manifest_file.some
                            THEN validate_target_aliases(cfg, manifest_file.val, aliases)
                            ELSE Raise("Abort", "", <<>>)
               IN IF ~valid.ok
                  THEN PublishEnded("aborted", Some(valid.error)) /\ UNCHANGED publish_todo
                  ELSE IF ~proceed
                  THEN /\ PublishEnded("aborted", Some(Raise("Abort", "", <<>>).error))
                       /\ UNCHANGED publish_todo
                  ELSE /\ PublishEnded("publishing", None)
                       /\ publish_todo' = aliases
    /\ UNCHANGED <<config_file, buildVars, remote_apis, pipeVars, enrichVars, unitVars,
                   resolverVars, menuVars>>

\* publish.py:50, 71-107  manager.publish(target_alias)
PublishTarget ==
    /\ publish_pc = "publishing"
    /\ publish_todo # <<>>
    /\ LET alias == Head(publish_todo)
           i == _config_index(api_config.val, alias)
           id == registered_api_id(api_config.val.targets[i])
           target == manifest_file.val.targets.map[alias].target
       IN \E flows \in FlowsAnswers :
            IF flows # "ok"
            THEN /\ PublishEnded("failed", Some(Raise(flows, "", <<>>).error))
                 /\ UNCHANGED <<remote_apis, api_config, publish_todo>>
            ELSE /\ IF id.some
                    THEN /\ remote_apis' = update_registered_api(remote_apis, id.val,
                                                                 alias, target)
                         /\ UNCHANGED api_config
                    ELSE /\ remote_apis' = create_registered_api(remote_apis, alias, target)
                         /\ api_config' = Some(SetRegisteredApiId(
                                api_config.val, i, remote_apis'[Len(remote_apis')]))
                 /\ publish_todo' = Tail(publish_todo)
                 /\ UNCHANGED <<publish_pc, publish_error>>
    /\ UNCHANGED <<config_file, publish_runs, buildVars, pipeVars, enrichVars, unitVars,
                   resolverVars, menuVars>>

\* publish.py:51  config.commit() after the loop
PublishCommit ==
    /\ publish_pc = "publishing"
    /\ publish_todo = <<>>
    /\ config_file' = Some(model_dump_json(api_config.val))
    /\ PublishEnded("done", None)
    /\ UNCHANGED <<api_config, remote_apis, publish_todo, publish_runs, buildVars,
                   pipeVars, enrichVars, unitVars, resolverVars, menuVars>>

NextPublish == PublishStart \/ PublishTarget \/ PublishCommit

SpecPublish == InitBuild /\ [][NextBuild \/ NextPublish]_vars
----------------------------------------------------------------------------
(* Claims about the component closure *)

\* the reference pointers of a JSON value: the strings under a "$ref" key
RECURSIVE Pointers(_)
Pointers(t) ==
    CASE t[1] = "dict" ->
           UNION {IF t[2][i][1] = S("$ref") /\ t[2][i][2][1] = "str"
                  THEN {t[2][i][2][2]}
                  ELSE Pointers(t[2][i][2]) : i \in DOMAIN t[2]}
      [] t[1] = "list" -> UNION {Pointers(t[2][i]) : i \in DOMAIN t[2]}
      [] OTHER -> {}

\* the schema names of the table that pointers of the value name
PointedNames(table, t) == {n \in DOMAIN table : SchemaRef(n) \in Pointers(t)}

RECURSIVE ReachClosure(_, _)
ReachClosure(table, names) ==
    LET more == names \cup UNION {PointedNames(table, table[n]) : n \in names}
    IN IF more = names THEN names ELSE ReachClosure(table, more)

\* the schemas reachable from the operation through the component-schema table
Reachable(doc, op) ==
    IF doc.schemas.some
    THEN ReachClosure(doc.schemas.val, PointedNames(doc.schemas.val, DumpOperation(op)))
    ELSE {}

ResultSchemas ==
    IF result.val.components.some THEN result.val.components.val.schemas ELSE EmptyDict

\* C1: the keys of components.schemas of a reduction are exactly the schema
\* names reachable from the operation by following #/components/schemas/<Name>
\* pointers through the document's schema table, each with the table's schema.
C1_ClosureExact ==
    pc = "done" =>
        /\ DictKeys(ResultSchemas) = Reachable(spec, target_info.val.operation)
        /\ \A n \in DictKeys(ResultSchemas) : ResultSchemas.map[n] = spec.schemas.val[n]

\* a reduction that collected a schema reached only through another schema,
\* from an operation that also points outside the table
C1_Witness ==
    /\ pc = "done"
    /\ \E n \in DictKeys(ResultSchemas) :
         SchemaRef(n) \notin Pointers(DumpOperation(target_info.val.operation))
    /\ DictKeys(ResultSchemas) # DOMAIN spec.schemas.val
    /\ \E r \in Pointers(DumpOperation(target_info.val.operation)) :
         _extract_schema_name(r) \notin DOMAIN spec.schemas.val

NoDuplicates(seq) == \A i, j \in DOMAIN seq : seq[i] = seq[j] => i = j

\* the schemas that lie on a reference cycle of the table
OnCycle(doc) ==
    {n \in DOMAIN doc.schemas.val :
        n \in ReachClosure(doc.schemas.val, PointedNames(doc.schemas.val, doc.schemas.val[n]))}

\* C2: the closure worklist terminates on every document, cyclic ones
\* included; every reference passes the visited check at most once and every
\* schema is stored exactly once.
C2_CycleSafe ==
    /\ [](/\ \A r \in RefsU : pop_count[r] <= 1
          /\ \A n \in Names : insert_count[n] <= 1
          /\ NoDuplicates(collected_schemas.order)
          /\ (pc = "done" => \A n \in DictKeys(collected_schemas) : insert_count[n] = 1))
    /\ <>(pc = "done")

\* a finished reduction that collected a schema lying on a reference cycle
C2_Witness ==
    /\ pc = "done"
    /\ spec.schemas.some
    /\ \E n \in DictKeys(ResultSchemas) : n \in OnCycle(spec) /\ insert_count[n] = 1

\* Python's == on two to_dict() outputs: key order does not count
SameOutput(d1, d2) ==
    /\ DOMAIN d1 = DOMAIN d2
    /\ \A k \in DOMAIN d1 \ {"components"} : d1[k] = d2[k]
    /\ "components" \in DOMAIN d1 => DictEq(d1.components.schemas, d2.components.schemas)

----------------------------------------------------------------------------
(* Claims about find_target and the destination *)

Requested == specifier.val

\* the first declared key that glob-matches the route
FirstGlobKey(doc, route) ==
    LET hits == {i \in DOMAIN doc.paths.val : fnmatch(doc.paths.val[i][1], route)}
    IN doc.paths.val[CHOOSE i \in hits : \A j \in hits : i <= j][1]

\* the path the claims expect the lookup to match, if any
HasExpectedPath(doc, route) ==
    doc.paths.some /\ (route \in PathKeys(doc) \/ \E k \in PathKeys(doc) : fnmatch(k, route))
ExpectedPath(doc, route) ==
    IF route \in PathKeys(doc) THEN route ELSE FirstGlobKey(doc, route)

\* the operation the path and method steps locate, if any
Located ==
    IF HasExpectedPath(spec, Requested.path)
    THEN LET item == PathItemAt(spec, ExpectedPath(spec, Requested.path))
         IN item[LowerOf[Requested.method]]
    ELSE None

\* the content-type keys the operation's request body declares
DeclaredTypes(op) ==
    IF op.requestBody.some /\ "content" \in DOMAIN op.requestBody.val
       /\ op.requestBody.val.content.some
    THEN {op.requestBody.val.content.val[i][1] : i \in DOMAIN op.requestBody.val.content.val}
    ELSE {}

ResolvedType == target_info.val.specifier.content_type

\* C5: content-type resolution. No declared request-body type: the requested
\* string unchanged. A requested string equal to a declared key: that key. Else
\* by the declared keys that glob-match the request: one gives that key, none
\* the not-found error, two or more the ambiguous-content-type error.
C5_ContentType ==
    (pc # "start" /\ Located.some) =>
        LET declared == DeclaredTypes(Located.val)
            req == Requested.content_type
            M == {k \in declared : fnmatch(k, req)}
        IN IF declared = {} \/ req \in declared
           THEN pc # "failed" /\ ResolvedType = req
           ELSE CASE Cardinality(M) = 1 -> pc # "failed" /\ ResolvedType \in M
                  [] Cardinality(M) = 0 ->
                       /\ pc = "failed"
                       /\ error.val.kind = "TargetNotFoundError"
                       /\ error.val.args[1] = req
                  [] OTHER -> pc = "failed" /\ error.val.kind = "AmbiguousContentTypeError"

\* the requested string is a declared key and, as a pattern, matches another key too
C5_Witness ==
    /\ pc = "found"
    /\ Located.some
    /\ Requested.content_type \in DeclaredTypes(Located.val)
    /\ \E k \in DeclaredTypes(Located.val) :
         k # Requested.content_type /\ fnmatch(k, Requested.content_type)
    /\ ResolvedType = Requested.content_type

IsPattern(str) == \E i \in DOMAIN str : str[i] \in {"*", "?", "["}

PathAndMethodConcrete ==
    /\ target_info.val.specifier.path \in PathKeys(spec)
    /\ PathItemAt(spec, target_info.val.specifier.path)
           [LowerOf[target_info.val.specifier.method]]
         = Some(target_info.val.operation)
    /\ target_info.val.specifier.method = Requested.method

\* C6 as stated: the resolved content-type is never a wildcard pattern.
C6_NeverWildcard ==
    pc = "found" => PathAndMethodConcrete /\ ~IsPattern(ResolvedType)

\* C6: every resolved target has a path that is a key of the path table and a
\* method declared on it; its content-type is a key the operation's request
\* body declares whenever it declares one, and the requested string otherwise.
C6_Concrete ==
    pc = "found" =>
        /\ PathAndMethodConcrete
        /\ LET declared == DeclaredTypes(target_info.val.operation)
           IN IF declared = {} THEN ResolvedType = Requested.content_type
              ELSE ResolvedType \in declared

\* a path pattern and a content-type pattern, both resolved to declared keys
C6_Witness ==
    /\ pc = "found"
    /\ Requested.path \notin PathKeys(spec)
    /\ IsPattern(Requested.content_type)
    /\ ResolvedType # Requested.content_type
    /\ ResolvedType \in DeclaredTypes(target_info.val.operation)

RouteNotFound ==
    /\ pc = "failed"
    /\ error.val.kind = "TargetNotFoundError"
    /\ error.val.text = "Route not found: {}"
MethodNotFound ==
    /\ pc = "failed"
    /\ error.val.kind = "TargetNotFoundError"
    /\ error.val.text = "Method '{}' not found for route '{}'"

\* C7: a requested path that is literally a key is the matched path; else the
\* first key in declared order that glob-matches it; with no such key the
\* lookup fails with the not-found error.
C7_PathResolution ==
    pc # "start" =>
        IF HasExpectedPath(spec, Requested.path)
        THEN /\ ~RouteNotFound
             /\ pc = "found" =>
                  target_info.val.specifier.path = ExpectedPath(spec, Requested.path)
             /\ MethodNotFound => error.val.args[2] = ExpectedPath(spec, Requested.path)
        ELSE RouteNotFound

\* the requested path is a key although an earlier key glob-matches it
C7_Witness ==
    /\ pc = "found"
    /\ Requested.path \in PathKeys(spec)
    /\ FirstGlobKey(spec, Requested.path) # Requested.path
    /\ target_info.val.specifier.path = Requested.path

\* the string occurs in one of the values the message is formatted from
Occurs(str, args) ==
    \E i \in DOMAIN args : \E k \in 0..(Len(args[i]) - Len(str)) :
        SubSeq(args[i], k + 1, k + Len(str)) = str

DefinedMethods(item) == {m \in LowerMethods : item[m].some}

\* C8: the error for a method that the matched path does not declare lists
\* the methods the path does declare.
C8_ListsMethods ==
    MethodNotFound =>
        \A m \in DefinedMethods(PathItemAt(spec, error.val.args[2])) :
            Occurs(S(Upper(m)), error.val.args) \/ Occurs(S(m), error.val.args)

\* the URL with every trailing slash removed
IsStripped(url, base) ==
    /\ base = <<>> \/ base[Len(base)] # "/"
    /\ Len(base) <= Len(url)
    /\ SubSeq(url, 1, Len(base)) = base
    /\ \A i \in (Len(base) + 1)..Len(url) : url[i] = "/"

\* C9: the destination's method is the resolved method in lower case; its url
\* is the first declared server URL without trailing slash followed by the
\* matched path, and the bare matched path when there is no server.
C9_Destination ==
    pc = "done" =>
        LET dest == result.val.destination
            path == ExpectedPath(spec, Requested.path)
            base == SubSeq(dest.url, 1, Len(dest.url) - Len(path))
        IN /\ dest.method = LowerOf[Requested.method]
           /\ Len(dest.url) >= Len(path)
           /\ SubSeq(dest.url, Len(dest.url) - Len(path) + 1, Len(dest.url)) = path
           /\ IF spec.servers = <<>> THEN base = <<>>
              ELSE IsStripped(spec.servers[1], base)

\* a glob-matched path under a server URL that ends with a slash
C9_Witness ==
    /\ pc = "done"
    /\ Requested.path \notin PathKeys(spec)
    /\ spec.servers # <<>>
    /\ Len(spec.servers[1]) > 1
    /\ spec.servers[1][Len(spec.servers[1])] = "/"
    /\ result.val.destination.url = <<"https://api.example.com", "/", "a", "b">>

----------------------------------------------------------------------------
(* Claims about the enrichers *)

Wrapped == {"aperture_science", "enchricher"}

\* C4: enrich never changes the document it is given.  After a call of enrich
\* has returned or raised, the document passed to it has the value it had at
\* the call, and shares no object with the document returned.
C4_CallerUnchanged ==
    (variant \in Wrapped /\ argument.some) =>
        /\ Snapshot(heap, argument.val) = before.val
        /\ returned.some =>
             Reach(heap, argument.val) \cap Reach(heap, returned.val) = {}

\* a call returned a document that differs from the one it was given
C4_Witness ==
    /\ variant \in Wrapped
    /\ enrich_pc = "once"
    /\ Snapshot(heap, returned.val).components # before.val.components
    /\ Snapshot(heap, returned.val).paths # before.val.paths

\* C3: enrichment is idempotent.  When enrich succeeded on a document, enrich
\* on the document it returned succeeds too and returns an equal document.
C3_Idempotent ==
    /\ enrich_pc # "failed again"
    /\ enrich_pc = "twice" => Snapshot(heap, returned.val) = first_result.val

\* the first run inserted requirements into an operation, and a second run followed
C3_Witness ==
    /\ variant = "enchricher"
    /\ enrich_pc = "twice"
    /\ first_result.val.paths # Snapshot(heap, Caller).paths

----------------------------------------------------------------------------
(* Claims about the shape of the reduction *)

\* C11: the components of a reduction are absent or hold a non-empty schemas
\* mapping, and to_dict() has the key "components" exactly when at least one
\* schema was collected.
C11_ComponentsShape ==
    pc = "done" =>
        /\ result.val.components.some =>
             DictKeys(result.val.components.val.schemas) # {}
        /\ ("components" \in DOMAIN to_dict(result.val))
             <=> (DictKeys(collected_schemas) # {})
        /\ ("components" \in DOMAIN to_dict(result.val))
             <=> (Reachable(spec, target_info.val.operation) # {})

\* the worklist ran over references that name no schema of the table, and the
\* result has no components
C11_Witness ==
    /\ pc = "done"
    /\ processed_refs # {}
    /\ ~result.val.components.some
    /\ "components" \notin DOMAIN to_dict(result.val)

----------------------------------------------------------------------------
(* Claims about the security scheme of an enriched document *)

\* the GlobusAuth scheme of a document value, if it declares one
DeclaredScheme(value) ==
    IF /\ value.components.some
       /\ value.components.val.securitySchemes.some
       /\ GlobusAuth \in DOMAIN value.components.val.securitySchemes.val
    THEN Some(value.components.val.securitySchemes.val[GlobusAuth])
    ELSE None

\* the scopes the enricher in use was configured with
ConfiguredScopes ==
    IF variant = "enchricher"
    THEN DOMAIN enricher.security_scheme.flows.val.authorizationCode.val.scopes
    ELSE IF variant = "aperture_science" /\ enricher.mutations # <<>>
    THEN DOMAIN enricher.mutations[1].scope_descriptions
    ELSE {}

\* same flow type, same endpoints, declared scopes a superset of the configured
Compatible(scheme, scopes) ==
    /\ scheme.class = "SecurityScheme"
    /\ scheme.type = "oauth2"
    /\ scheme.flows.some
    /\ scheme.flows.val.authorizationCode.some
    /\ scheme.flows.val.authorizationCode.val.authorizationUrl = AuthorizeUrl
    /\ scheme.flows.val.authorizationCode.val.tokenUrl = TokenUrl
    /\ scopes \subseteq DOMAIN scheme.flows.val.authorizationCode.val.scopes

\* C12: when the document already declares a GlobusAuth scheme, enrichment
\* succeeds only if that scheme is compatible with the configuration, and the
\* enriched document still holds the scheme the document declared.
C12_SchemeValidated ==
    (variant \in Wrapped /\ enrich_pc = "once" /\ DeclaredScheme(before.val).some) =>
        /\ Compatible(DeclaredScheme(before.val).val, ConfiguredScopes)
        /\ DeclaredScheme(Snapshot(heap, returned.val)) = DeclaredScheme(before.val)

----------------------------------------------------------------------------
(* Claims about the security lists of enriched operations *)

\* the operations of a document value, as <<index of the path, method key>>
OperationsOf(value) ==
    IF ~value.paths.some THEN {}
    ELSE {<<i, m>> \in (DOMAIN value.paths.val) \X LowerMethods :
            value.paths.val[i][2].ops[m].some}
PathOf(value, op) == value.paths.val[op[1]][1]
SecurityOf(value, op) == value.paths.val[op[1]][2].ops[op[2]].val.security
SecurityList(value, op) ==
    IF SecurityOf(value, op).some THEN SecurityOf(value, op).val ELSE <<>>

\* the document the caller gave to the first call
Original == Snapshot(heap, Caller)

\* the wildcard scopes of the configuration, in its order
WildcardScopes ==
    IF variant = "enchricher" THEN enricher.wildcard_scopes
    ELSE IF enricher.mutations # <<>> THEN enricher.mutations[1].all_scopes
    ELSE <<>>
TargetIndex ==
    IF variant = "enchricher" THEN enricher.target_specifier_scopes
    ELSE IF enricher.mutations # <<>> THEN enricher.mutations[1].target_specifier_scopes
    ELSE <<>>
\* the scopes with a target that names the method and the path; the dict
\* enricher looks a target up with the content type "*"
TargetedScopes(path, method) ==
    UNION {{TargetIndex[i][2][j] : j \in DOMAIN TargetIndex[i][2]} :
             i \in {k \in DOMAIN TargetIndex :
                      /\ TargetIndex[k][1].path = path
                      /\ TargetIndex[k][1].method = method
                      /\ variant = "aperture_science" =>
                           TargetIndex[k][1].content_type = S("*")}}

FrontInserting == {"enchricher", "enricher"}

IsAddedEntry(entry) == \E scope \in ScopesU : entry = Requirement(scope)

\* old is the tail of new, and what new has before it are added entries
KeptAsTail(old, new) ==
    /\ Len(new) >= Len(old)
    /\ SubSeq(new, Len(new) - Len(old) + 1, Len(new)) = old
    /\ \A i \in 1..(Len(new) - Len(old)) : IsAddedEntry(new[i])

\* C14: after a run, every security entry an operation had before it is still
\* there, unchanged and in the same order, as the tail of the list, and every
\* entry before that tail is a single-scope entry {GlobusAuth: [scope]}.
C14_ExistingKeptAsTail ==
    (variant \in FrontInserting /\ enrich_pc \in {"once", "twice"}) =>
        LET after == Snapshot(heap, returned.val)
        IN /\ \A op \in OperationsOf(before.val) :
                /\ op \in OperationsOf(after)
                /\ KeptAsTail(SecurityList(before.val, op), SecurityList(after, op))
                /\ SecurityList(after, op) = SecurityList(before.val, op) =>
                     SecurityOf(after, op) = SecurityOf(before.val, op)
           /\ \A op \in OperationsOf(after) \ OperationsOf(before.val) :
                KeptAsTail(<<>>, SecurityList(after, op))

\* an operation with two entries of its own got a new entry in front of them
C14_Witness ==
    /\ variant = "enchricher"
    /\ enrich_pc = "once"
    /\ \E op \in OperationsOf(before.val) :
         /\ Len(SecurityList(before.val, op)) = 2
         /\ Len(SecurityList(Snapshot(heap, returned.val), op)) > 2

PathKeysOf(value) ==
    IF value.paths.some THEN Some([i \in DOMAIN value.paths.val |-> value.paths.val[i][1]])
    ELSE None

\* C15: whole-document enrichment adds no path and no method.  The enriched
\* document has the path keys and the operations of the document given.
C15_NoOperationAdded ==
    (variant \in Wrapped /\ enrich_pc \in {"once", "twice"}) =>
        /\ PathKeysOf(Snapshot(heap, returned.val)) = PathKeysOf(before.val)
        /\ OperationsOf(Snapshot(heap, returned.val)) = OperationsOf(before.val)

\* a wildcard scope was added to the get operation of a path, whose other
\* methods are undefined before and after
C15_Witness ==
    /\ variant = "enchricher"
    /\ enrich_pc = "once"
    /\ Len(WildcardScopes) >= 1
    /\ OperationsOf(before.val) = {<<1, "get">>}
    /\ OperationsOf(Snapshot(heap, returned.val)) = {<<1, "get">>}
    /\ SecurityList(Snapshot(heap, returned.val), <<1, "get">>)
         # SecurityList(before.val, <<1, "get">>)

----------------------------------------------------------------------------
(* Claims about TargetSpecifier *)

\* the valid specifiers: one of the 8 verbs, a path that starts with "/"
ValidSpecifiers ==
    {[method |-> m, path |-> p, content_type |-> ct] :
        m \in MethodSet, p \in {q \in FieldPaths : q # <<>> /\ Head(q) = "/"},
        ct \in FieldTypes}

\* the string forms of a specifier; the content type may be left out when it is "*"
Written(sp) ==
    {WithContentType(sp.method, sp.path, sp.content_type)}
    \cup (IF sp.content_type = S("*") THEN {WithoutContentType(sp.method, sp.path)} ELSE {})

\* C16: load of a string form of a valid specifier gives that specifier.
C16_RoundTrip ==
    (call.fn = "load" /\ answer.some) =>
        \A sp \in ValidSpecifiers :
            call.args.value \in Written(sp) => answer.val = Return(sp)

StartsWithSlash(path) == path # <<>> /\ Head(path) = "/"

\* the method is one of the 8 verbs, in any case of its letters
IsVerb(method) ==
    \E u \in MethodSet :
        \/ method \in {u, LowerOf[u]}
        \/ method \in DOMAIN MixedCase /\ MixedCase[method] = u

\* C17: a TargetSpecifier that exists has one of the 8 verbs in upper case
\* and a path that starts with "/", however it was made; create and load
\* upper-case the method, every refusal is a ValueError, and an assignment
\* to a field of a specifier raises.
C17_SpecifierInvariant ==
    answer.some =>
        IF call.fn = "setattr"
        THEN /\ ~answer.val.ok
             /\ call.args.instance.method \in MethodSet
             /\ StartsWithSlash(call.args.instance.path)
        ELSE /\ answer.val.ok =>
                  /\ answer.val.value.method \in MethodSet
                  /\ StartsWithSlash(answer.val.value.path)
             /\ ~answer.val.ok => answer.val.error.kind = "ValueError"
             /\ call.fn = "TargetSpecifier" =>
                  (answer.val.ok <=>
                     call.args.method \in MethodSet /\ StartsWithSlash(call.args.path))
             /\ call.fn = "create" =>
                  (answer.val.ok <=>
                     IsVerb(call.args.method) /\ StartsWithSlash(call.args.path))
             /\ (call.fn = "load" /\ answer.val.ok) => IsVerb(call.args.value[1])

\* create was given a lower-case verb and made a specifier with the verb in upper case
C17_Witness ==
    /\ call.fn = "create"
    /\ call.args.method = "get"
    /\ answer.some /\ answer.val.ok
    /\ answer.val.value.method = "GET"

----------------------------------------------------------------------------
(* Claims about the analyzer *)

Analysed == call # None /\ call.fn = "analyze" /\ answer.some
AnalysedDoc == call.args.spec
Analysis == answer.val.value

\* the operations a document declares, as <<path, method, operation>>
Declared(doc) ==
    UNION {{<<doc.paths.val[i][1], m, doc.paths.val[i][2][Lower(m)].val>> :
                m \in {x \in MethodSet : Lower(x) \in DOMAIN doc.paths.val[i][2]}} :
           i \in DOMAIN doc.paths.val}

\* the scopes recorded for the target of an operation
RecordedFor(path, method) ==
    UNION {{Analysis.scopes_by_target[k][2][j] : j \in DOMAIN Analysis.scopes_by_target[k][2]} :
           k \in {x \in DOMAIN Analysis.scopes_by_target :
                    /\ Analysis.scopes_by_target[x][1].path = path
                    /\ Analysis.scopes_by_target[x][1].method = method}}

SecurityOfOperation(operation) ==
    IF operation.security.some
    THEN {operation.security.val[i] : i \in DOMAIN operation.security.val} ELSE {}

OneKeyOneScope(requirement) ==
    Len(requirement) = 1 /\ Len(requirement[1][2]) = 1
OneGlobusAuthScope(requirement) ==
    OneKeyOneScope(requirement) /\ requirement[1][1] = "GlobusAuth"

AllRecorded ==
    UNION {RecordedFor(d[1], d[2]) : d \in Declared(AnalysedDoc)}

\* C18 as stated: a scope is recorded for an operation exactly when one of
\* its security requirements has exactly one security-scheme key mapping to
\* exactly one scope string, that scope; no requirement makes the analysis
\* fail; scope_strings is the set of the scopes so recorded.
C18_SingleKeyRecorded ==
    (Analysed /\ answer.val.ok) =>
        /\ \A d \in Declared(AnalysedDoc) :
             RecordedFor(d[1], d[2])
               = {r[1][2][1] : r \in {x \in SecurityOfOperation(d[3]) : OneKeyOneScope(x)}}
        /\ {Analysis.scope_strings[i] : i \in DOMAIN Analysis.scope_strings} = AllRecorded

\* C18, amended: a scope is recorded for an operation exactly when one of its
\* security requirements has the one key "GlobusAuth" mapping to exactly one
\* scope string; every other requirement (another key, several keys, zero or
\* several scopes) is ignored and never makes the analysis fail;
\* scope_strings holds each scope so recorded once, and nothing else.
C18_GlobusAuthRecorded ==
    Analysed =>
        /\ answer.val.ok
             <=> /\ AnalysedDoc.paths.some
                 /\ \A i \in DOMAIN AnalysedDoc.paths.val :
                      \/ AnalysedDoc.paths.val[i][2] = <<>>
                      \/ StartsWithSlash(AnalysedDoc.paths.val[i][1])
        /\ answer.val.ok =>
             /\ \A d \in Declared(AnalysedDoc) :
                  RecordedFor(d[1], d[2])
                    = {r[1][2][1] :
                         r \in {x \in SecurityOfOperation(d[3]) : OneGlobusAuthScope(x)}}
             /\ {Analysis.scope_strings[i] : i \in DOMAIN Analysis.scope_strings}
                  = AllRecorded
             /\ \A i, j \in DOMAIN Analysis.scope_strings :
                  Analysis.scope_strings[i] = Analysis.scope_strings[j] => i = j

\* an analysed operation with a GlobusAuth single scope and a single scope
\* under another key: the first is recorded, the second is not
C18_Witness ==
    /\ Analysed /\ answer.val.ok
    /\ \E d \in Declared(AnalysedDoc) :
         /\ \E r \in SecurityOfOperation(d[3]) : OneGlobusAuthScope(r)
         /\ \E r \in SecurityOfOperation(d[3]) :
               /\ OneKeyOneScope(r) /\ ~OneGlobusAuthScope(r)
               /\ r[1][2][1] \notin RecordedFor(d[1], d[2])
         /\ RecordedFor(d[1], d[2]) # {}

----------------------------------------------------------------------------
(* Claims about the loader *)

LoadedCall == call # None /\ call.fn = "load_openapi_spec" /\ answer.some
Stored == call.args.stored.val

Validated(data) ==
    IF data.valid THEN Return([class |-> "OpenAPI", data |-> data])
    ELSE OpenAPILoadError("Malformed OpenAPI specification", <<>>)

\* C19: content that was fetched or read is parsed as JSON first and as YAML
\* when JSON fails, whatever the extension is; content that parses as
\* neither raises one OpenAPILoadError that says neither JSON nor YAML
\* matched.
C19_JsonThenYaml ==
    (LoadedCall /\ call.args.stored.some) =>
        answer.val = IF Stored.json.some THEN Validated(Stored.json.val)
                     ELSE IF Stored.yaml.some THEN Validated(Stored.yaml.val)
                     ELSE OpenAPILoadError(
                              "Failed to parse OpenAPI content as JSON or YAML", <<>>)

----------------------------------------------------------------------------
(* Claims about the roles of the configuration *)

UniqueEntities(roles) ==
    \A i, j \in DOMAIN roles :
        (roles[i].type = roles[j].type /\ roles[i].id = roles[j].id) => i = j

HasRole(cfg, type, id) ==
    \E i \in DOMAIN cfg.roles : cfg.roles[i].type = type /\ cfg.roles[i].id = id

\* an add_role step for an entity that has a role already
AddsDuplicate ==
    /\ api_config.some
    /\ call'.fn = "add_role"
    /\ HasRole(api_config.val, call'.args.type, call'.args.id)

\* C20: after any sequence of add_role, modify_role and remove_role from a
\* role list with no two roles of the same (type, id), the role list in
\* memory and the one on disk have no two roles of the same (type, id); an
\* add_role for an entity that already has a role leaves the configuration
\* as it is, in memory and on disk.
C20_RolesStayUnique ==
    /\ [](api_config.some =>
            /\ UniqueEntities(api_config.val.roles)
            /\ UniqueEntities(config_file.val.roles))
    /\ [][AddsDuplicate => UNCHANGED <<api_config, config_file>>]_vars

\* a duplicate add_role was turned down, with roles of both types configured
C20_Witness ==
    /\ api_config.some /\ call # None /\ call.fn = "add_role"
    /\ answer.val.value # <<>>
    /\ HasRole(api_config.val, call.args.type, call.args.id)
    /\ Len(api_config.val.roles) >= 3
    /\ config_file.val = model_dump_json(api_config.val)

----------------------------------------------------------------------------
(* Claims about the name resolvers *)

Cached == name_cache.val.cache

\* a step in which the resolver is asked to resolve an ID it has in its cache
ResolvesCached(id) ==
    /\ id \in DOMAIN Cached
    /\ call'.fn = "resolve" /\ call'.args.id = id

----------------------------------------------------------------------------
(* Claims about the menu loop of manage *)

\* the option of the menu shown that the step selects
Chosen ==
    current_menu[CHOOSE i \in DOMAIN current_menu :
                    current_menu[i][2] = call'.args.label][1]

\* what a selection does to the menu: Exit ends the loop, Back shows the main
\* menu, a sub-menu is shown, a subcommand leaves the menu as it is
Dispatches ==
    /\ Chosen = EXIT_SENTINEL => menu_pc' = "exited"
    /\ Chosen = BACK_SENTINEL => current_menu' = _create_main_menu /\ menu_pc' = "prompt"
    /\ Chosen.class = "list" => current_menu' = Chosen.value /\ menu_pc' = "prompt"
    /\ Chosen.class = "method" => current_menu' = current_menu

----------------------------------------------------------------------------
(* Claims about the order of the steps of find_target *)

PathStepFails == ~HasExpectedPath(spec, Requested.path)
MethodStepFails == ~Located.some
TypeStepFails(op) ==
    LET declared == DeclaredTypes(op)
        req == Requested.content_type
    IN /\ declared # {}
       /\ req \notin declared
       /\ Cardinality({k \in declared : fnmatch(k, req)}) # 1
ContentTypeFailed ==
    /\ pc = "failed"
    /\ \/ /\ error.val.kind = "TargetNotFoundError"
          /\ error.val.text = "Content-type '{}' not found. Available: {}"
       \/ error.val.kind = "AmbiguousContentTypeError"

\* C23: find_target either returns a fully resolved target and no error, or
\* one error and no target.  The steps are tried in the order path, method,
\* content-type: the error is the one of the first step that fails, whatever
\* the later steps would have done.
C23_FailFast ==
    pc # "start" =>
        /\ pc \in {"found", "failed"}
        /\ pc = "found" => target_info.some /\ ~error.some /\ PathAndMethodConcrete
        /\ pc = "failed" => error.some /\ ~target_info.some /\ result = None
        /\ IF PathStepFails THEN RouteNotFound
           ELSE IF MethodStepFails THEN MethodNotFound
           ELSE IF TypeStepFails(Located.val) THEN ContentTypeFailed
           ELSE pc = "found"

\* the method is missing on a path whose other operation declares no type
\* that the requested content-type matches: only the method error is raised
C23_Witness ==
    /\ MethodNotFound
    /\ ~target_info.some
    /\ Requested.method = "DELETE"
    /\ LET item == PathItemAt(spec, ExpectedPath(spec, Requested.path))
       IN /\ item["post"].some
          /\ DeclaredTypes(item["post"].val) # {}
          /\ \A k \in DeclaredTypes(item["post"].val) : ~fnmatch(k, Requested.content_type)


----------------------------------------------------------------------------
(* Claims about dangling references in the closure *)

\* a schema pointer whose name the component-schema table does not hold
Dangling(doc, r) ==
    LET name == _extract_schema_name(r)
    IN name # NoName /\ (~doc.schemas.some \/ name \notin DOMAIN doc.schemas.val)

\* C24: the iteration that pops a reference whose schema name is absent from
\* the component-schema table raises nothing and stores nothing: the loop goes
\* on with the rest of the work-set.  The finished reduction holds no entry
\* under an absent name and holds every schema reachable from the operation.
C24_DanglingSkipped ==
    /\ [][\A r \in processed_refs' \ processed_refs :
            Dangling(spec, r) =>
                /\ collected_schemas' = collected_schemas
                /\ schemas_to_process' = schemas_to_process \ {r}
                /\ pc' = "collect"
                /\ error' = None]_vars
    /\ [](pc = "done" =>
            /\ error = None
            /\ \A r \in processed_refs :
                 Dangling(spec, r) => _extract_schema_name(r) \notin DictKeys(ResultSchemas)
            /\ Reachable(spec, target_info.val.operation) \subseteq DictKeys(ResultSchemas))

\* a finished reduction that met a dangling reference inside a stored schema
\* and stored two schemas
C24_Witness ==
    /\ pc = "done"
    /\ \E r \in processed_refs :
         /\ Dangling(spec, r)
         /\ r \notin Pointers(DumpOperation(target_info.val.operation))
    /\ Cardinality(DictKeys(ResultSchemas)) >= 2


----------------------------------------------------------------------------
(* Claims about the operations of the configured targets *)

\* the operation object the document holds for the path and method, if any
OpAt(h, schema, path, m) ==
    IF h[schema].paths = NoRef THEN NoRef
    ELSE IF path \notin DOMAIN h[h[schema].paths].items THEN NoRef
    ELSE h[h[h[schema].paths].items[path]].ops[m]

KeysAt(h, schema) ==
    IF h[schema].paths = NoRef THEN {} ELSE DOMAIN h[h[schema].paths].items

NamedBy(targets, path, m) ==
    {i \in DOMAIN targets : targets[i].path = path /\ Lower(targets[i].method) = m}

\* C25: when mutate of the configuration-driven enricher returns, the
\* document holds an operation for the path and method of every configured
\* target.  An operation the document held is the same object afterwards; one
\* that no target names has the value it had.  An operation the document did
\* not hold is named by a target and carries nothing but the scope
\* requirements of the targets that name it (no security list when they
\* name no scope).
C25_TargetsEnsured ==
    [][(variant = "enricher" /\ ~enrich_error'.some) =>
          LET schema == argument'.val
              targets == enricher.config.targets
          IN /\ \A i \in DOMAIN targets :
                   OpAt(heap', schema, targets[i].path, Lower(targets[i].method)) # NoRef
             /\ \A key \in KeysAt(heap, schema), m \in LowerMethods :
                   LET old == OpAt(heap, schema, key, m)
                   IN old # NoRef =>
                        /\ OpAt(heap', schema, key, m) = old
                        /\ NamedBy(targets, key, m) = {} =>
                             SnapOperation(heap', old) = SnapOperation(heap, old)
             /\ \A key \in KeysAt(heap', schema), m \in LowerMethods :
                   LET new == OpAt(heap', schema, key, m)
                       naming == NamedBy(targets, key, m)
                       wanted == UNION {{targets[i].scope_strings[k] :
                                           k \in DOMAIN targets[i].scope_strings} :
                                        i \in naming}
                       security == SnapSecurity(heap', heap'[new].security)
                   IN (new # NoRef /\ OpAt(heap, schema, key, m) = NoRef) =>
                        /\ naming # {}
                        /\ IF wanted = {} THEN ~security.some
                           ELSE /\ security.some
                                /\ {security.val[k] : k \in DOMAIN security.val}
                                     = {Requirement(scope) : scope \in wanted}]_vars

\* one call created the post operation of a path the document had and the get
\* operation of a path it lacked, next to a get operation no target names
C25_Witness ==
    /\ variant = "enricher"
    /\ enrich_pc = "once"
    /\ before.val.paths.some
    /\ \E i \in DOMAIN before.val.paths.val :
         /\ before.val.paths.val[i][1] = PathA
         /\ before.val.paths.val[i][2].ops["get"].some
         /\ ~before.val.paths.val[i][2].ops["post"].some
    /\ {<<enricher.config.targets[i].method, enricher.config.targets[i].path>> :
           i \in DOMAIN enricher.config.targets} = {<<"POST", PathA>>, <<"GET", PathB>>}
    /\ OpAt(heap, returned.val, PathA, "post") # NoRef
    /\ OpAt(heap, returned.val, PathB, "get") # NoRef
    /\ SnapOperation(heap, OpAt(heap, returned.val, PathA, "get"))
         = before.val.paths.val[1][2].ops["get"]


----------------------------------------------------------------------------
(* Claims about repeated scopes *)

\* the security list of the operation of the path and method; empty when the
\* document has no such operation or the operation no list
SecurityAt(value, path, m) ==
    IF ~value.paths.some THEN <<>>
    ELSE LET at == {i \in DOMAIN value.paths.val :
                      /\ value.paths.val[i][1] = path
                      /\ value.paths.val[i][2].ops[m].some
                      /\ value.paths.val[i][2].ops[m].val.security.some}
         IN IF at = {} THEN <<>>
            ELSE value.paths.val[CHOOSE i \in at : TRUE][2].ops[m].val.security.val

SingleGlobusAuth(requirement) ==
    GlobusAuth \in DOMAIN requirement /\ Len(requirement[GlobusAuth]) = 1

NoScopeTwice(security) ==
    \A i, j \in DOMAIN security :
        (/\ i # j
         /\ SingleGlobusAuth(security[i])
         /\ SingleGlobusAuth(security[j])) =>
            security[i][GlobusAuth] # security[j][GlobusAuth]

EnrichedOnce == Snapshot(heap, returned.val)

\* C27: an operation whose security list had no two single-scope GlobusAuth
\* entries for one scope has none after one enrichment run either, whatever
\* the configuration names.
C27_NoScopeTwice ==
    enrich_pc = "once" =>
        \A op \in OperationsOf(EnrichedOnce) :
            LET path == PathOf(EnrichedOnce, op)
            IN NoScopeTwice(SecurityAt(before.val, path, op[2])) =>
                 NoScopeTwice(SecurityAt(EnrichedOnce, path, op[2]))

(***************************************************************************)
(* Claims about the build command                                          *)
(***************************************************************************)

\* the step of build.py:39: every configured target was stored before it
BuildCommitStep ==
    /\ build_pc = "targets"
    /\ build_todo = <<>>
    /\ enriched_spec.some
    /\ \A i \in DOMAIN api_config.val.targets :
         api_config.val.targets[i].alias \in DictKeys(registered_apis)
    /\ build_pc' = "done"

\* C26: the build command writes the manifest file only after every configured
\* target has been enriched, selected and reduced; a build that fails leaves
\* the manifest on disk as it was before the command.
C26_ManifestAfterAllTargets ==
    [][/\ manifest_file' # manifest_file => BuildCommitStep
       /\ build_pc' = "failed" => manifest_file' = manifest_file]_vars

\* a build failed at a later target, after an earlier target was computed,
\* and the manifest of the earlier build is still on disk
C26_Witness ==
    /\ build_pc = "failed"
    /\ registered_apis # EmptyDict
    /\ build_todo # <<>>
    /\ manifest_file = Some(EarlierManifest)

\* C28: after a successful build the manifest has one entry for each
\* configured target, also when two targets carry the same alias.
C28_EntryPerTarget ==
    build_pc = "done" =>
        Len(manifest_file.val.targets.order) = Len(api_config.val.targets)

\* the configured target's path and method are declared in the specification
DeclaredIn(doc, target) ==
    /\ doc.paths.some
    /\ \E i \in DOMAIN doc.paths.val :
         /\ doc.paths.val[i][1] = target.path
         /\ doc.paths.val[i][2][Lower(target.method)].some

\* C30: a configured target whose path and method the specification declares
\* is selected without a selection error, whatever number of request-body
\* content-types its operation declares.
C30_DeclaredTargetSelected ==
    (/\ build_pc = "processing"
     /\ pc \in {"found", "failed"}
     /\ DeclaredIn(spec, Head(build_todo))) => pc = "found"

(***************************************************************************)
(* Claims about the publish command                                        *)
(***************************************************************************)

\* the IDs the configuration on disk records
RecordedIds ==
    LET cfg == model_validate_json(config_file.val)
    IN {registered_api_id(cfg.targets[i]).val :
          i \in {j \in DOMAIN cfg.targets : registered_api_id(cfg.targets[j]).some}}

\* C29: when a publish run has ended, every remote Registered API that was
\* created is recorded by its ID in the configuration on disk, also when a
\* later target of the run failed; no alias has two remote Registered APIs.
C29_CreatedIdsRecorded ==
    publish_pc \in {"done", "failed", "aborted"} =>
        /\ \A n \in DOMAIN remote_apis : remote_apis[n].id[2] \in RecordedIds
        /\ \A n, m \in DOMAIN remote_apis :
             remote_apis[n].name = remote_apis[m].name => n = m

====
